---- MODULE Spec2Model ----
(***************************************************************************)
(* VL TradingView Bridge: the background script's level clustering and     *)
(* labelling (clusterLevels, finalizeCluster, formatZoneLabel,             *)
(* formatLevelLabel, formatDollars) and its fetch-then-draw coordination   *)
(* (handleMessage, fetchVlLevels, fetchVlTrades, fetchAndDraw,             *)
(* fetchAndDrawTrades, extractLevels), modelled from                       *)
(* src/firefox/background.js; the popup's level cache (loadLevels,         *)
(* addManualLevel, handleRemoveLevel, clearCache) from                     *)
(* src/firefox/popup/popup.js; and the content script's drawing jobs       *)
(* (sendToInjected, drawLevels, drawNotes, clearDrawnLevels) from          *)
(* src/unnamed/part_003, with the injected script's replies from the       *)
(* injected part of src/firefox/background.js; and the ticker translation  *)
(* (tvToVl, vlToTv) from the ticker map of src/firefox/background.js.      *)
(* The injected script's message handler is also run on its own, command   *)
(* by command, and sendToInjected step by step (listener, timer, reply),   *)
(* as is the loadDrawnShapeIds of the content script's start.              *)
(*                                                                         *)
(* Numbers.  Prices are integers in units of 1/PriceScale dollar and the   *)
(* clustering threshold is an integer in units of 1/ThrScale percent, so   *)
(* that the admission test of clusterLevels is exact integer arithmetic    *)
(* (the rounding of IEEE doubles is outside the model).  Dollar amounts    *)
(* are whole dollars held in two limbs [m, u] = m * 10^6 + u, because the  *)
(* amounts of interest (2.9e9) exceed the model checker's integers.        *)
(* A quotient the code leaves as a double (midPrice, avgDollars) is the    *)
(* exact fraction [num, den].  A falsy JavaScript value (undefined, null,  *)
(* 0) of rank or dollars is Absent: the code tests both by truthiness.     *)
(* Labels are sequences of one-character strings.                          *)
(***************************************************************************)
EXTENDS Integers, Sequences, FiniteSets, TLC

VARIABLES
    \* --- the clustering engine applied to drawn inputs
    cLevels,      \* the levels argument of clusterLevels
    cThreshold,   \* the thresholdPercent argument (units of 1/ThrScale percent)
    cItems,       \* the value clusterLevels returned
    cLabels,      \* the label of each returned item
    cPc,          \* "input" | "clustered" | "labelled"
    \* --- the background script
    tradeLevels,  \* Map symbol -> levels[] (a symbol absent from the map is not in DOMAIN)
    largeTrades,  \* Map symbol -> trades[]
    stored,       \* browser.storage.local key tradeLevels
    calls,        \* one record per FETCH_VL_LEVELS / FETCH_VL_TRADES message handled
    tabInbox,     \* the messages sent with browser.tabs.sendMessage, in order
    intercepted,  \* how many API responses interceptRequest has processed
    \* --- the popup
    popupLevels,  \* the popup's levels object: symbol -> levels[]
    \* --- the content script and the chart of its tab
    drawnShapeIds,   \* the content script's drawnShapeIds array
    storedShapeIds,  \* browser.storage.local key drawnShapeIds
    chart,           \* the shapes on the TradingView chart
    created,         \* how many shapes the chart has created so far
    jobs,            \* one record per message the content script handles
    loading,         \* the loadDrawnShapeIds of the script's start has not finished
    \* --- sendToInjected, one promise per request
    requests,        \* one record per sendToInjected call
    mail,            \* the messages posted to the window and not yet dispatched
    \* --- the ticker translation applied to drawn inputs
    symIn,          \* the ticker handed to tvToVl and to vlToTv
    symVl,        \* tvToVl(symIn)
    symTv,        \* vlToTv(symIn)
    symBack,      \* tvToVl(vlToTv(symIn))
    symPc,        \* "input" | "translated" | "returned"
    \* --- the injected script applied to drawn commands
    handled       \* the replies the injected script's message handler has posted

cvars == <<cLevels, cThreshold, cItems, cLabels, cPc>>
bvars == <<tradeLevels, largeTrades, stored, calls, tabInbox, intercepted>>
pvars == <<popupLevels>>
tvars == <<drawnShapeIds, storedShapeIds, chart, created, jobs>>
mvars == <<symIn, symVl, symTv, symBack, symPc>>
ivars == <<handled>>
svars == <<loading>>
qvars == <<requests, mail>>
\* The variables of the parts that are run on their own.
xvars == <<mvars, ivars, svars, qvars>>
vars == <<cLevels, cThreshold, cItems, cLabels, cPc,
          tradeLevels, largeTrades, stored, calls, tabInbox, intercepted,
          popupLevels, drawnShapeIds, storedShapeIds, chart, created, jobs,
          symIn, symVl, symTv, symBack, symPc, handled, loading, requests, mail>>

----------------------------------------------------------------------------
\* Bounds of the model.

\* The longest levels argument drawn for clusterLevels.
MaxLevels == 3

\* Units of a price: 10 is one dollar.
PriceScale == 10

\* Units of a threshold: 10 is one percent.
ThrScale == 10

\* A falsy rank or dollars (undefined, null, 0).
Absent == 0

\* The two limbs of a dollar amount: value = m * LimbBase + u, 0 <= u < LimbBase.
LimbBase == 1000000

Amt(m, u) == [m |-> m, u |-> u]

NoDollars == Amt(Absent, Absent)

----------------------------------------------------------------------------
\* JavaScript number helpers.

\* a + b on dollar amounts.
AmtAdd(a, b) ==
    LET s == a.u + b.u
    IN  Amt(a.m + b.m + (s \div LimbBase), s % LimbBase)

\* Truthiness of a dollar amount: any number but 0.
AmtTruthy(a) == a.m # 0 \/ a.u # 0

\* l.dollars || 0
AmtOrZero(a) == IF AmtTruthy(a) THEN a ELSE Amt(0, 0)

\* Math.max(...s) and Math.min(...s) of a non-empty sequence of numbers.
MathMax(s) == CHOOSE x \in {s[i] : i \in DOMAIN s} : \A j \in DOMAIN s : s[j] <= x

MathMin(s) == CHOOSE x \in {s[i] : i \in DOMAIN s} : \A j \in DOMAIN s : x <= s[j]

\* Array.prototype.sort with a comparator a - b is stable: x goes after every
\* element that is not greater.
RECURSIVE InsertNumber(_, _)
InsertNumber(x, s) ==
    IF s = <<>> THEN <<x>>
    ELSE IF Head(s) <= x THEN <<Head(s)>> \o InsertNumber(x, Tail(s))
         ELSE <<x>> \o s

RECURSIVE SortNumbers(_)
SortNumbers(s) ==
    IF s = <<>> THEN <<>>
    ELSE InsertNumber(s[Len(s)], SortNumbers(SubSeq(s, 1, Len(s) - 1)))

\* String(n) for a natural number, one character per digit.
DigitChar(d) == <<"0", "1", "2", "3", "4", "5", "6", "7", "8", "9">>[d + 1]

RECURSIVE NumToString(_)
NumToString(n) ==
    IF n < 10 THEN <<DigitChar(n)>>
    ELSE NumToString(n \div 10) \o <<DigitChar(n % 10)>>

\* Array.prototype.join(sep) on an array of strings.
RECURSIVE Join(_, _)
Join(parts, sep) ==
    IF parts = <<>> THEN <<>>
    ELSE IF Len(parts) = 1 THEN parts[1]
    ELSE parts[1] \o sep \o Join(Tail(parts), sep)

----------------------------------------------------------------------------
\* Label formatting.

\* A formatDollars whose buckets have exclusive lower bounds.
formatDollarsExclusive(amount) ==
    IF amount.m > 1000 \/ (amount.m = 1000 /\ amount.u > 0)
    THEN LET rem == (amount.m % 100) * LimbBase + amount.u
             tenths == (amount.m \div 100) + (IF 2 * rem >= 100 * LimbBase THEN 1 ELSE 0)
         IN  <<"$">> \o NumToString(tenths \div 10) \o <<".">>
                     \o NumToString(tenths % 10) \o <<"B">>
    ELSE IF amount.m > 1 \/ (amount.m = 1 /\ amount.u > 0)
    THEN <<"$">> \o NumToString(amount.m + (IF 2 * amount.u >= LimbBase THEN 1 ELSE 0))
                 \o <<"M">>
    ELSE IF amount.m = 1 \/ amount.u > 1000
    THEN <<"$">> \o NumToString((amount.m * 1000) + (amount.u \div 1000)
                                + (IF 2 * (amount.u % 1000) >= 1000 THEN 1 ELSE 0))
                 \o <<"K">>
    ELSE <<"$">> \o NumToString(amount.u)

\* formatDollars(amount): the bucket by inclusive lower bounds, then toFixed,
\* which rounds to the nearest, halves upwards.  (A tie of the tenths of a
\* billion is decided by the binary value of the double; the amounts drawn
\* have no such tie but 1.25e9, whose quotient is exact.)
formatDollars(amount) ==
    IF amount.m >= 1000
    THEN LET rem == (amount.m % 100) * LimbBase + amount.u
             tenths == (amount.m \div 100) + (IF 2 * rem >= 100 * LimbBase THEN 1 ELSE 0)
         IN  <<"$">> \o NumToString(tenths \div 10) \o <<".">>
                     \o NumToString(tenths % 10) \o <<"B">>
    ELSE IF amount.m >= 1
    THEN <<"$">> \o NumToString(amount.m + (IF 2 * amount.u >= LimbBase THEN 1 ELSE 0))
                 \o <<"M">>
    ELSE IF amount.u >= 1000
    THEN <<"$">> \o NumToString((amount.u \div 1000)
                                + (IF 2 * (amount.u % 1000) >= 1000 THEN 1 ELSE 0))
                 \o <<"K">>
    ELSE <<"$">> \o NumToString(amount.u)

\* The popup's copy of formatDollars (src/firefox/popup/popup.js).
PopupFormatDollars(amount) ==
    IF amount.m >= 1000
    THEN LET hundredMillions == amount.m \div 100
             rest == (amount.m % 100) * LimbBase + amount.u
             n == IF 2 * rest >= 100 * LimbBase THEN hundredMillions + 1
                  ELSE hundredMillions
         IN  <<"$">> \o NumToString(n \div 10) \o <<".">> \o NumToString(n % 10)
                     \o <<"B">>
    ELSE IF amount.m >= 1
    THEN <<"$">> \o NumToString(IF 2 * amount.u >= LimbBase THEN amount.m + 1
                                 ELSE amount.m) \o <<"M">>
    ELSE IF amount.u >= 1000
    THEN <<"$">> \o NumToString(IF 2 * (amount.u % 1000) >= 1000
                                 THEN (amount.u \div 1000) + 1
                                 ELSE amount.u \div 1000) \o <<"K">>
    ELSE <<"$">> \o NumToString(amount.u)

\* A formatLevelLabel that pushes the rank token whatever the rank.
formatLevelLabelAlwaysRank(level) ==
    LET parts == <<<<"V", "L">>>>
                 \o <<<<"#">> \o NumToString(level.rank)>>
                 \o (IF AmtTruthy(level.dollars)
                     THEN <<formatDollars(level.dollars)>> ELSE <<>>)
    IN  Join(parts, <<" ">>)

\* formatLevelLabel(level): 'VL', '#rank' if rank, formatDollars(dollars) if dollars.
formatLevelLabel(level) ==
    LET parts == <<<<"V", "L">>>>
                 \o (IF level.rank # Absent
                     THEN <<<<"#">> \o NumToString(level.rank)>> ELSE <<>>)
                 \o (IF AmtTruthy(level.dollars)
                     THEN <<formatDollars(level.dollars)>> ELSE <<>>)
    IN  Join(parts, <<" ">>)

\* formatZoneLabel(zone): 'VL', '#lo' or '#lo-hi' from aggregated.rankRange,
\* formatDollars(totalDollars) if > 0.
formatZoneLabel(zone) ==
    LET aggregated == zone.aggregated
        parts == <<<<"V", "L">>>>
                 \o (IF aggregated.rankRange[1] # Absent
                     THEN IF aggregated.rankRange[1] = aggregated.rankRange[2]
                          THEN <<<<"#">> \o NumToString(aggregated.rankRange[1])>>
                          ELSE <<<<"#">> \o NumToString(aggregated.rankRange[1])
                                 \o <<"-">> \o NumToString(aggregated.rankRange[2])>>
                     ELSE <<>>)
                 \o (IF AmtTruthy(aggregated.totalDollars)
                     THEN <<formatDollars(aggregated.totalDollars)>> ELSE <<>>)
    IN  Join(parts, <<" ">>)

----------------------------------------------------------------------------
\* Clustering.

\* levels.map(l => l.price)
PricesOf(levels) == [i \in DOMAIN levels |-> levels[i].price]

\* levels.map(l => l.rank).filter(Boolean)
RECURSIVE TruthyRanks(_)
TruthyRanks(levels) ==
    IF levels = <<>> THEN <<>>
    ELSE IF Head(levels).rank # Absent
         THEN <<Head(levels).rank>> \o TruthyRanks(Tail(levels))
         ELSE TruthyRanks(Tail(levels))

\* [...levels].sort((a, b) => a.price - b.price), a stable sort.
RECURSIVE InsertLevel(_, _)
InsertLevel(x, s) ==
    IF s = <<>> THEN <<x>>
    ELSE IF Head(s).price <= x.price THEN <<Head(s)>> \o InsertLevel(x, Tail(s))
         ELSE <<x>> \o s

RECURSIVE SortLevels(_)
SortLevels(levels) ==
    IF levels = <<>> THEN <<>>
    ELSE InsertLevel(levels[Len(levels)],
                     SortLevels(SubSeq(levels, 1, Len(levels) - 1)))

\* { type: 'level', ...l }
LevelItem(l) == [type |-> "level"] @@ l

\* A reduce without its initial value: the first member's dollars are not added.
RECURSIVE SumDollarsSkippingFirst(_)
SumDollarsSkippingFirst(levels) ==
    IF Len(levels) <= 1 THEN Amt(0, 0)
    ELSE AmtAdd(SumDollarsSkippingFirst(SubSeq(levels, 1, Len(levels) - 1)),
                AmtOrZero(levels[Len(levels)].dollars))

\* levels.reduce((sum, l) => sum + (l.dollars || 0), 0)
RECURSIVE SumDollars(_)
SumDollars(levels) ==
    IF levels = <<>> THEN Amt(0, 0)
    ELSE AmtAdd(SumDollars(SubSeq(levels, 1, Len(levels) - 1)),
                AmtOrZero(levels[Len(levels)].dollars))

\* A rank list left in member order.
UnsortedRanks(levels) == TruthyRanks(levels)

\* levels.map(l => l.rank).filter(Boolean).sort((a, b) => a - b)
SortedRanks(levels) == SortNumbers(TruthyRanks(levels))

\* A finalizeCluster without its single-level case.
IsSingleOmitted(levels) == FALSE

\* levels.length === 1
IsSingle(levels) == Len(levels) = 1

\* The zone object finalizeCluster builds.
Zone(levels) ==
    LET prices == PricesOf(levels)
        ranks == SortedRanks(levels)
        totalDollars == SumDollars(levels)
        highPrice == MathMax(prices)
        lowPrice == MathMin(prices)
    IN  [type |-> "zone",
         highPrice |-> highPrice,
         lowPrice |-> lowPrice,
         midPrice |-> [num |-> highPrice + lowPrice, den |-> 2],
         levels |-> levels,
         aggregated |->
             [rankRange |-> IF Len(ranks) > 0 THEN <<ranks[1], ranks[Len(ranks)]>>
                            ELSE <<Absent, Absent>>,
              totalDollars |-> totalDollars,
              levelCount |-> Len(levels),
              avgDollars |-> [num |-> totalDollars, den |-> Len(levels)]]]

\* finalizeCluster(levels): one level stays a level; more become a zone.
finalizeCluster(levels) ==
    IF IsSingle(levels) THEN LevelItem(levels[1]) ELSE Zone(levels)

\* A threshold taken from the cluster's first member instead of its high.
ClusterSeed(currentCluster) == currentCluster[1].price

\* Math.max(...currentCluster.map(l => l.price))
ClusterHigh(currentCluster) == MathMax(PricesOf(currentCluster))

\* An admission test with < for <=.
AdmitsStrictly(clusterHigh, price, thresholdPercent) ==
    (price - clusterHigh) * 100 * ThrScale < clusterHigh * thresholdPercent

\* (level.price - clusterHigh) <= clusterHigh * (thresholdPercent / 100), both
\* sides multiplied by 100 * ThrScale.
Admits(clusterHigh, price, thresholdPercent) ==
    (price - clusterHigh) * 100 * ThrScale <= clusterHigh * thresholdPercent

\* A loop that forgets its last cluster.
PushLastClusterForgotten(clusters, currentCluster) == clusters

\* clusters.push(finalizeCluster(currentCluster)) after the loop.
PushLastCluster(clusters, currentCluster) ==
    Append(clusters, finalizeCluster(currentCluster))

\* The loop of clusterLevels from index i on, and the push that follows it.
RECURSIVE ClusterWalk(_, _, _, _, _)
ClusterWalk(sorted, i, currentCluster, clusters, thresholdPercent) ==
    IF i > Len(sorted) THEN PushLastCluster(clusters, currentCluster)
    ELSE LET level == sorted[i]
             clusterHigh == ClusterHigh(currentCluster)
         IN  IF Admits(clusterHigh, level.price, thresholdPercent)
             THEN ClusterWalk(sorted, i + 1, Append(currentCluster, level),
                              clusters, thresholdPercent)
             ELSE ClusterWalk(sorted, i + 1, <<level>>,
                              Append(clusters, finalizeCluster(currentCluster)),
                              thresholdPercent)

\* A disabled test that lets a threshold of 0 through to the clustering.
ClusteringOffBelowZero(thresholdPercent) == thresholdPercent < 0

\* thresholdPercent <= 0
ClusteringOff(thresholdPercent) == thresholdPercent <= 0

\* clusterLevels(levels, thresholdPercent)
clusterLevels(levels, thresholdPercent) ==
    IF Len(levels) = 0 THEN <<>>
    ELSE IF ClusteringOff(thresholdPercent)
    THEN [i \in DOMAIN levels |-> LevelItem(levels[i])]
    ELSE LET sorted == SortLevels(levels)
         IN  ClusterWalk(sorted, 2, <<sorted[1]>>, <<>>, thresholdPercent)

\* item.type === 'zone' ? formatZoneLabel(item) : formatLevelLabel(item)
LabelOf(item) ==
    IF item.type = "zone" THEN formatZoneLabel(item) ELSE formatLevelLabel(item)

----------------------------------------------------------------------------
\* The clustering engine on drawn inputs.

\* Prices 100, 101, 102.5 and 110 dollars.
Prices == {100 * PriceScale, 101 * PriceScale, 1025, 110 * PriceScale}

\* Thresholds -1, 0, 1, 1.5 and 5 percent.
Thresholds == {-1 * ThrScale, 0, 1 * ThrScale, 15, 5 * ThrScale}

\* (rank, dollars) of a drawn level: ranks 7, 9, 10 and none; 1e9, 9e8 and none.
Profiles ==
    { [rank |-> 9, dollars |-> Amt(1000, 0)],
      [rank |-> 7, dollars |-> Amt(1000, 0)],
      [rank |-> 10, dollars |-> Amt(900, 0)],
      [rank |-> Absent, dollars |-> NoDollars] }

DrawnLevels ==
    { [price |-> p, symbol |-> "AAPL", rank |-> f.rank, dollars |-> f.dollars,
       source |-> "test"] : p \in Prices, f \in Profiles }

SeqsUpTo(S, n) == UNION { [1..k -> S] : k \in 0..n }

CInit ==
    /\ cLevels \in SeqsUpTo(DrawnLevels, MaxLevels)
    /\ cThreshold \in Thresholds
    /\ cItems = <<>>
    /\ cLabels = <<>>
    /\ cPc = "input"

\* A clusterLevels that sorts the array it is given.
ArgumentAfterSortingInPlace(levels, thresholdPercent) ==
    IF Len(levels) = 0 \/ ClusteringOff(thresholdPercent) THEN levels
    ELSE SortLevels(levels)

\* The caller's array after clusterLevels(levels, thresholdPercent): the sort
\* runs on the copy [...levels] and nothing else writes to levels.
ArgumentAfter(levels, thresholdPercent) == levels

RunCluster ==
    /\ cPc = "input"
    /\ cItems' = clusterLevels(cLevels, cThreshold)
    /\ cLevels' = ArgumentAfter(cLevels, cThreshold)
    /\ cPc' = "clustered"
    /\ UNCHANGED <<cThreshold, cLabels, bvars, pvars, tvars, xvars>>

RunLabels ==
    /\ cPc = "clustered"
    /\ cLabels' = [i \in DOMAIN cItems |-> LabelOf(cItems[i])]
    /\ cPc' = "labelled"
    /\ UNCHANGED <<cLevels, cThreshold, cItems, bvars, pvars, tvars, xvars>>

----------------------------------------------------------------------------
\* The background script: values.

\* How many FETCH_VL_LEVELS / FETCH_VL_TRADES messages are handled.
MaxCalls == 2

\* How many API responses interceptRequest processes.
MaxIntercepts == 1

\* A falsy tabId (null, undefined): fetch without drawing.
NoTab == 0

\* The tab a fetch is asked to draw on.
ChartTab == 7

\* settings.clusterThreshold ?? 1.0, in units of 1/ThrScale percent.
DefaultThreshold == 10

Tickers == {"AAPL", "MSFT"}

\* message.symbol: absent (falsy), lower case, upper case.
MsgSymbols == {"", "aapl", "MSFT"}

\* message.symbol of a fetch message: absent, or a symbol to upper-case.
FetchSymbols == {"", "aapl"}

\* String.prototype.toUpperCase on the symbols of the model.
ToUpperCase(sym) == IF sym = "aapl" THEN "AAPL" ELSE sym

OtherTicker(t) == IF t = "AAPL" THEN "MSFT" ELSE "AAPL"

\* A JavaScript Error: its message, with the HTTP status the message quotes.
Error(text, status) == [message |-> [text |-> text, status |-> status]]

NoTickerError == Error("No ticker symbol provided", 0)

NotLoggedInError ==
    Error("Not logged into VolumeLeaders. Please log in at volumeleaders.com first.", 0)

SessionExpiredError == Error("VolumeLeaders session expired. Please log in again.", 0)

ApiError(status) == Error("VL API error: ${response.status} ${response.statusText}", status)

NetworkError == Error("NetworkError when attempting to fetch resource.", 0)

JsonError == Error("JSON.parse: unexpected character", 0)

TabError == Error("Could not establish connection. Receiving end does not exist.", 0)

\* response.status of the upstream; 0 stands for a fetch() that rejects.
HttpStatuses == {0, 200, 400, 401, 403}

\* A row of the upstream's { data: [...] }: Ticker '' and Price 0 stand for a
\* missing field.
Row(t, price, rank, dollars) ==
    [Ticker |-> t, Price |-> price, TradeLevelRank |-> rank, Dollars |-> dollars]

\* The bodies GetTradeLevels answers for ticker t: no row; two rows 1% apart;
\* two rows of one price; a row without a price; a row of t and one of
\* another ticker.
LevelBodies(t) ==
    { <<>>,
      <<Row(t, 1010, 2, Amt(900, 0)), Row(t, 1000, 1, Amt(1600, 0))>>,
      <<Row(t, 1000, 1, Amt(1600, 0)), Row(t, 1000, 3, Amt(0, 999))>>,
      <<Row(t, 0, 1, Amt(1600, 0))>>,
      <<Row(t, 1025, Absent, NoDollars), Row(OtherTicker(t), 1000, 1, Amt(250, 0))>> }

\* The bodies of the GET responses interceptRequest sees.
InterceptedBodies ==
    { <<Row("AAPL", 1025, 4, Amt(250, 0))>>,
      <<Row("AAPL", 1000, 5, Amt(1, 0)), Row("MSFT", 1010, Absent, NoDollars)>> }

\* A row of GetTrades: Date is <<millis>> for "/Date(millis)/" and <<>> for a
\* date the pattern does not match.
TradeRow(t, price, date, rank, dollars, darkPool) ==
    [Ticker |-> t, Price |-> price, Date |-> date, TradeRank |-> rank,
     Dollars |-> dollars, DarkPool |-> darkPool]

TradeBodies(t) ==
    { <<>>,
      <<TradeRow(t, 1000, <<1748563000>>, 1, Amt(500, 0), 1),
        TradeRow("", 1010, <<>>, 2, Amt(20, 0), 0)>> }

\* What browser.cookies.getAll gives checkVlAuth: cookies with .ASPXAUTH among
\* them, cookies without it, or a rejection.
CookieLookups == {"auth-cookie", "no-auth-cookie", "lookup-failed"}

\* checkVlAuth(): !!authCookie, or false from the catch.
checkVlAuth(lookup) ==
    IF lookup = "lookup-failed" THEN [authenticated |-> FALSE, error |-> "cookies"]
    ELSE [authenticated |-> (lookup = "auth-cookie")]

\* The settings fetchAndDraw reads: <<>> is a key that is not set.
ClusteringEnabledSettings == {<<>>, <<TRUE>>, <<FALSE>>}

ClusterThresholdSettings == {<<>>, <<0>>, <<15>>}

\* What the tab answers to DRAW_LEVELS / DRAW_CIRCLES: a reply of the content
\* script (<<"resolve", reply>>) or a rejected sendMessage (<<"reject", error>>).
DrawOutcomes ==
    { <<"resolve", [success |-> TRUE, error |-> ""]>>,
      <<"resolve", [success |-> FALSE, error |-> "TradingView chart API not available"]>>,
      <<"reject", TabError>> }

EmptyMap == [t \in {} |-> <<>>]

----------------------------------------------------------------------------
\* The background script: the level cache.

\* tradeLevels.delete(symbol)
MapDelete(map, t) == [x \in (DOMAIN map) \ {t} |-> map[x]]

\* tradeLevels.get(symbol) || []
MapGetOrEmpty(map, t) == IF t \in DOMAIN map THEN map[t] ELSE <<>>

\* tradeLevels.set(symbol, value)
MapSet(map, t, value) == [x \in (DOMAIN map) \cup {t} |-> IF x = t THEN value ELSE map[x]]

\* extractSymbolFromUrl('direct-fetch:' + ticker): the tickers of the model are
\* alphanumeric.
extractSymbolFromUrl(url) == url.ticker

\* A find that never matches: every row is pushed.
HasPriceNever(existing, price) == FALSE

\* existing.find(l => l.price === price)
HasPrice(existing, price) == \E i \in DOMAIN existing : existing[i].price = price

\* The level object extractLevels builds from a row (volume, trades, dates and
\* the timestamp are carried along unread and left out).
LevelOfRow(item, symbol, price, url) ==
    [price |-> price, symbol |-> symbol, rank |-> item.TradeLevelRank,
     dollars |-> item.Dollars, source |-> url.kind]

\* The body of the loop of extractLevels for one row, on the map.
ExtractRow(map, item, url) ==
    LET urlSymbol == extractSymbolFromUrl(url)
        symbol == ToUpperCase(IF item.Ticker # "" THEN item.Ticker
                              ELSE IF urlSymbol # "" THEN urlSymbol ELSE "UNKNOWN")
        price == item.Price
    IN  IF price # 0
        THEN LET existing == MapGetOrEmpty(map, symbol)
             IN  IF ~HasPrice(existing, price)
                 THEN MapSet(map, symbol, Append(existing, LevelOfRow(item, symbol, price, url)))
                 ELSE MapSet(map, symbol, existing)
        ELSE map

\* extractLevels(url, items) on the map; saveLevels() follows it in the actions.
RECURSIVE extractLevels(_, _, _)
extractLevels(map, url, items) ==
    IF items = <<>> THEN map
    ELSE extractLevels(ExtractRow(map, Head(items), url), url, Tail(items))

DirectFetchUrl(ticker) == [kind |-> "direct-fetch", ticker |-> ticker]

InterceptedUrl == [kind |-> "intercepted", ticker |-> ""]

\* processApiResponse: only a body whose first row has a Ticker and a Price is
\* taken for trade levels.
LooksLikeTradeLevels(data) == Len(data) > 0 /\ data[1].Ticker # ""

----------------------------------------------------------------------------
\* The background script: one handled message.
\*
\* A call's record holds the locals of its fetchAndDraw[Trades] and what has
\* happened to it: auth, status, parsed and body (what the upstream answered),
\* thrown (the error it rejected with), fetchResult, fetched (the levels or
\* trades of fetchResult when fetchVl... returned), clustered (the drawables
\* were computed), drew (how the draw message settled) and response (what
\* sendResponse was given).
\*
\* fetchResult.levels is the very array the cache holds for the ticker, so a
\* push of extractLevels onto that array shows in fetchResult until the cache
\* entry is deleted or replaced.  levelsRef = "cache" says the call's
\* fetchResult.levels is still the cache's array; "own" that it is not.

NewCall(kind, symbol, tabId) ==
    [kind |-> kind, symbol |-> symbol, ticker |-> ToUpperCase(symbol), tabId |-> tabId,
     pc |-> "auth", auth |-> "unknown", status |-> <<>>, parsed |-> FALSE, body |-> <<>>,
     thrown |-> <<>>, fetchResult |-> <<>>, levelsRef |-> "own", fetched |-> <<>>,
     settings |-> <<>>, clustered |-> FALSE, drew |-> "no", response |-> <<>>]

\* The requests to the upstream a call has issued: the POST to GetTradeLevels /
\* GetTrades once the auth check has passed, and nothing else.
Requests(c) == IF c.auth = "yes" THEN <<"POST">> ELSE <<>>

\* The StartDate .. EndDate window of the request a call has issued:
\* fetchVlLevels and fetchVlTrades both build it from the yearRange setting
\* (today minus yearRange years .. today) and from nothing else.
RequestWindow(c) == IF c.auth = "yes" THEN <<"yearRange">> ELSE <<>>

\* A catch that answers with an empty success.
CatchResponseSwallowed(err) == [success |-> TRUE, error |-> err.message]

\* .catch(err => sendResponse({ success: false, error: err.message }))
CatchResponse(err) == [success |-> FALSE, error |-> err.message]

\* The messages call p sent to the tab.
SentBy(p) == {i \in DOMAIN tabInbox : tabInbox[i].call = p}

\* The call rejects with err: handleMessage's catch answers the sender.
Throw(c, err) ==
    [c EXCEPT !.pc = "replied", !.thrown = <<err>>, !.response = <<CatchResponse(err)>>]

\* The call resolves with result: handleMessage's then answers the sender.
Return(c, result) == [c EXCEPT !.pc = "replied", !.response = <<result>>]

----------------------------------------------------------------------------
\* The background script: actions.

BInit ==
    /\ tradeLevels = EmptyMap
    /\ largeTrades = EmptyMap
    /\ stored = EmptyMap
    /\ calls = <<>>
    /\ tabInbox = <<>>
    /\ intercepted = 0

BIdle == BInit

\* handleMessage FETCH_VL_LEVELS / FETCH_VL_TRADES: fetchAndDraw[Trades] starts
\* and fetchVl... runs up to its first await; a falsy ticker throws at once.
ReceiveFetch(kind, symbol, tabId) ==
    /\ Len(calls) < MaxCalls
    /\ LET c == NewCall(kind, symbol, tabId)
       IN  calls' = Append(calls, IF symbol = "" THEN Throw(c, NoTickerError) ELSE c)
    /\ UNCHANGED <<tradeLevels, largeTrades, stored, tabInbox, intercepted, cvars, xvars, pvars, tvars>>

\* An auth check whose result is not looked at: fetch() is sent either way.
AuthCheckedUnheeded(p, authenticated) ==
    /\ calls[p].pc = "auth"
    /\ calls' = [calls EXCEPT ![p] =
                    [@ EXCEPT !.pc = "http", !.auth = IF authenticated THEN "yes" ELSE "no"]]
    /\ UNCHANGED <<tradeLevels, largeTrades, stored, tabInbox, intercepted, cvars, xvars, pvars, tvars>>

\* The settings and checkVlAuth() have come back: without the auth cookie the
\* call throws, with it fetch() is sent.
AuthChecked(p, authenticated) ==
    /\ calls[p].pc = "auth"
    /\ calls' = [calls EXCEPT ![p] =
                    IF ~authenticated THEN Throw([@ EXCEPT !.auth = "no"], NotLoggedInError)
                    ELSE [@ EXCEPT !.pc = "http", !.auth = "yes"]]
    /\ UNCHANGED <<tradeLevels, largeTrades, stored, tabInbox, intercepted, cvars, xvars, pvars, tvars>>

\* A classification that knows no expired session.
StatusErrorGeneric(status) == ApiError(status)

\* The error a response that is not ok is turned into.
StatusError(status) ==
    IF status = 401 \/ status = 403 THEN SessionExpiredError ELSE ApiError(status)

\* fetch() has settled: rejected (status 0), not ok, or ok.
HttpSettled(p, status) ==
    /\ calls[p].pc = "http"
    /\ calls' = [calls EXCEPT ![p] =
                    IF status = 0 THEN Throw([@ EXCEPT !.status = <<status>>], NetworkError)
                    ELSE IF status # 200
                    THEN Throw([@ EXCEPT !.status = <<status>>], StatusError(status))
                    ELSE [@ EXCEPT !.pc = "json", !.status = <<status>>]]
    /\ UNCHANGED <<tradeLevels, largeTrades, stored, tabInbox, intercepted, cvars, xvars, pvars, tvars>>

\* response.json() rejects.
JsonFailed(p) ==
    /\ calls[p].pc = "json"
    /\ calls' = [calls EXCEPT ![p] = Throw(@, JsonError)]
    /\ UNCHANGED <<tradeLevels, largeTrades, stored, tabInbox, intercepted, cvars, xvars, pvars, tvars>>

\* A test that lets an empty result through to the drawing.
NothingToDrawUnlessFailed(fetchResult, items) == ~fetchResult.success

\* !fetchResult.success || fetchResult.levels.length === 0
NothingToDraw(fetchResult, items) == ~fetchResult.success \/ Len(items) = 0

\* A saveLevels that writes nothing.
saveLevelsSkipped(map, previous) == previous

\* saveLevels(): storage.local's tradeLevels key becomes Object.fromEntries of
\* the map, whatever it held before.
saveLevels(map, previous) == map

\* Every other call whose fetchResult.levels is the cache's array of a symbol
\* in gone loses that tie: the cache entry was deleted or replaced.
Detach(cs, gone) ==
    [q \in DOMAIN cs |->
        IF cs[q].levelsRef = "cache" /\ cs[q].pc # "replied" /\ cs[q].ticker \in gone
        THEN [cs[q] EXCEPT !.levelsRef = "own"] ELSE cs[q]]

\* Every call whose fetchResult.levels is the cache's array sees what was
\* pushed onto it.
Alias(cs, map) ==
    [q \in DOMAIN cs |->
        IF cs[q].levelsRef = "cache" /\ cs[q].pc # "replied"
        THEN [cs[q] EXCEPT !.fetchResult =
                 <<[cs[q].fetchResult[1] EXCEPT !.levels = map[cs[q].ticker]]>>]
        ELSE cs[q]]

\* A fetch that extracts into the entry the ticker already has.
CacheAfterFetchMerging(map, ticker, data) ==
    IF Len(data) = 0 THEN map
    ELSE extractLevels(map, DirectFetchUrl(ticker), data)

\* A fetch that deletes the ticker's entry before it looks at the body.
CacheAfterFetchDeletingFirst(map, ticker, data) ==
    extractLevels(MapDelete(map, ticker), DirectFetchUrl(ticker), data)

\* The cache after fetchVlLevels has taken body data for ticker: untouched by
\* an empty body, else the ticker's entry deleted and the rows extracted.
CacheAfterFetch(map, ticker, data) ==
    IF Len(data) = 0 THEN map
    ELSE extractLevels(MapDelete(map, ticker), DirectFetchUrl(ticker), data)

\* What fetchVlLevels returns for body data, the cache being map afterwards.
LevelsResult(map, ticker, data) ==
    IF Len(data) = 0
    THEN [success |-> TRUE, ticker |-> ticker, levels |-> <<>>,
          message |-> "No trade levels found"]
    ELSE [success |-> TRUE, ticker |-> ticker, levels |-> MapGetOrEmpty(map, ticker),
          count |-> Len(MapGetOrEmpty(map, ticker))]

\* response.json() of fetchVlLevels has come back with body data; fetchAndDraw
\* goes on to its own first await, or returns.
LevelsParsed(p, data) ==
    /\ calls[p].pc = "json"
    /\ calls[p].kind = "levels"
    /\ LET ticker == calls[p].ticker
           map == CacheAfterFetch(tradeLevels, ticker, data)
           fetchResult == LevelsResult(map, ticker, data)
           c == [calls[p] EXCEPT !.parsed = TRUE, !.body = data,
                                 !.fetchResult = <<fetchResult>>,
                                 !.fetched = fetchResult.levels,
                                 !.levelsRef = IF Len(data) > 0 /\ ticker \in DOMAIN map
                                               THEN "cache" ELSE "own"]
           others == IF Len(data) > 0 THEN Detach(calls, {ticker}) ELSE calls
       IN  /\ tradeLevels' = map
           /\ stored' = IF Len(data) > 0 THEN saveLevels(map, stored) ELSE stored
           /\ calls' = Alias([others EXCEPT ![p] =
                                 IF NothingToDraw(fetchResult, fetchResult.levels)
                                 THEN Return(c, fetchResult)
                                 ELSE IF c.tabId # NoTab
                                 THEN [c EXCEPT !.pc = "cfg"]
                                 ELSE Return(c, fetchResult)],
                             map)
    /\ UNCHANGED <<largeTrades, tabInbox, intercepted, cvars, xvars, pvars, tvars>>

\* clusteringEnabled && threshold > 0 ? clusterLevels(...) : levels.map(...)
Drawables(levels, clusteringEnabled, threshold) ==
    IF clusteringEnabled /\ threshold > 0 THEN clusterLevels(levels, threshold)
    ELSE [i \in DOMAIN levels |-> LevelItem(levels[i])]

\* drawables.map(item => ({ ...item, label: ... }))
WithLabels(drawables) ==
    [i \in DOMAIN drawables |-> [label |-> LabelOf(drawables[i])] @@ drawables[i]]

\* settings.clusteringEnabled !== false
ClusteringEnabled(enabledSetting) == enabledSetting # <<FALSE>>

\* settings.clusterThreshold ?? 1.0
Threshold(thresholdSetting) ==
    IF thresholdSetting = <<>> THEN DefaultThreshold ELSE thresholdSetting[1]

\* A fetchAndDraw that does not await fetchVlLevels: it clusters and draws
\* what the cache holds while the request is still out.
SettingsReadUnawaited(p, enabledSetting, thresholdSetting) ==
    /\ calls[p].pc \in {"http", "json"}
    /\ calls[p].kind = "levels"
    /\ calls[p].tabId # NoTab
    /\ SentBy(p) = {}
    /\ LET clusteringEnabled == ClusteringEnabled(enabledSetting)
           threshold == Threshold(thresholdSetting)
           drawables == Drawables(MapGetOrEmpty(tradeLevels, calls[p].ticker),
                                  clusteringEnabled, threshold)
       IN  /\ tabInbox' = Append(tabInbox,
                                 [call |-> p, tabId |-> calls[p].tabId, type |-> "DRAW_LEVELS",
                                  items |-> WithLabels(drawables)])
           /\ calls' = [calls EXCEPT ![p] =
                           [@ EXCEPT !.settings = <<clusteringEnabled, threshold>>]]
    /\ UNCHANGED <<tradeLevels, largeTrades, stored, intercepted, cvars, xvars, pvars, tvars>>

\* The clustering settings have come back: the levels are clustered, labelled
\* and sent to the tab in DRAW_LEVELS.
SettingsRead(p, enabledSetting, thresholdSetting) ==
    /\ calls[p].pc = "cfg"
    /\ LET clusteringEnabled == ClusteringEnabled(enabledSetting)
           threshold == Threshold(thresholdSetting)
           drawables == Drawables(calls[p].fetchResult[1].levels, clusteringEnabled, threshold)
       IN  /\ tabInbox' = Append(tabInbox,
                                 [call |-> p, tabId |-> calls[p].tabId, type |-> "DRAW_LEVELS",
                                  items |-> WithLabels(drawables)])
           /\ calls' = [calls EXCEPT ![p] =
                           [@ EXCEPT !.pc = "draw", !.clustered = TRUE,
                                     !.settings = <<clusteringEnabled, threshold>>]]
    /\ UNCHANGED <<tradeLevels, largeTrades, stored, intercepted, cvars, xvars, pvars, tvars>>

\* The result of a call whose draw step threw.
DrawFailedResult(fetchResult, err) ==
    [drawResult |-> [success |-> FALSE, error |-> err.message]] @@ fetchResult

\* The result of a call whose draw message was answered.
DrawnResult(fetchResult, drawResponse) == [drawResult |-> drawResponse] @@ fetchResult

\* browser.tabs.sendMessage has settled: the call returns its result, and the
\* clustering locals of its try block are gone.
DrawSettled(p, outcome) ==
    /\ calls[p].pc = "draw"
    /\ LET fetchResult == calls[p].fetchResult[1]
       IN  calls' = [calls EXCEPT ![p] =
                        Return([@ EXCEPT !.drew = outcome[1], !.settings = <<>>],
                               IF outcome[1] = "reject"
                               THEN DrawFailedResult(fetchResult, outcome[2])
                               ELSE DrawnResult(fetchResult, outcome[2]))]
    /\ UNCHANGED <<tradeLevels, largeTrades, stored, tabInbox, intercepted, cvars, xvars, pvars, tvars>>

\* The trade object fetchVlTrades builds from a row.
TradeOfRow(item, ticker) ==
    [ticker |-> IF item.Ticker # "" THEN item.Ticker ELSE ticker,
     price |-> item.Price,
     timestamp |-> IF item.Date # <<>> THEN <<item.Date[1] \div 1000>> ELSE <<>>,
     rank |-> item.TradeRank, dollars |-> item.Dollars,
     darkPool |-> (item.DarkPool = 1), source |-> "trades-fetch"]

\* What fetchVlTrades returns for body data.
TradesResult(ticker, data) ==
    IF Len(data) = 0
    THEN [success |-> TRUE, ticker |-> ticker, trades |-> <<>>,
          message |-> "No large trades found"]
    ELSE [success |-> TRUE, ticker |-> ticker,
          trades |-> [i \in DOMAIN data |-> TradeOfRow(data[i], ticker)],
          count |-> Len(data)]

\* response.json() of fetchVlTrades has come back with body data;
\* fetchAndDrawTrades sends DRAW_CIRCLES, or returns.
TradesParsed(p, data) ==
    /\ calls[p].pc = "json"
    /\ calls[p].kind = "trades"
    /\ LET ticker == calls[p].ticker
           fetchResult == TradesResult(ticker, data)
           c == [calls[p] EXCEPT !.parsed = TRUE, !.body = data,
                                 !.fetchResult = <<fetchResult>>,
                                 !.fetched = fetchResult.trades]
       IN  /\ largeTrades' = IF Len(data) > 0
                             THEN MapSet(largeTrades, ticker, fetchResult.trades)
                             ELSE largeTrades
           /\ IF NothingToDraw(fetchResult, fetchResult.trades) \/ c.tabId = NoTab
              THEN /\ calls' = [calls EXCEPT ![p] = Return(c, fetchResult)]
                   /\ UNCHANGED tabInbox
              ELSE /\ calls' = [calls EXCEPT ![p] = [c EXCEPT !.pc = "draw"]]
                   /\ tabInbox' = Append(tabInbox,
                          [call |-> p, tabId |-> c.tabId, type |-> "DRAW_CIRCLES",
                           items |-> fetchResult.trades])
    /\ UNCHANGED <<tradeLevels, stored, intercepted, cvars, xvars, pvars, tvars>>

\* interceptRequest / processApiResponse: a GET response of the VL site is
\* parsed and, if it looks like trade levels, extracted and saved.
Intercept(data) ==
    /\ intercepted < MaxIntercepts
    /\ intercepted' = intercepted + 1
    /\ IF LooksLikeTradeLevels(data)
       THEN LET map == extractLevels(tradeLevels, InterceptedUrl, data)
            IN  /\ tradeLevels' = map
                /\ stored' = saveLevels(map, stored)
                /\ calls' = Alias(calls, map)
       ELSE UNCHANGED <<tradeLevels, stored, calls>>
    /\ UNCHANGED <<largeTrades, tabInbox, cvars, xvars, pvars, tvars>>

\* handleMessage CLEAR_LEVELS: one symbol, or all of them when none is given.
ClearLevels(symbol) ==
    /\ tradeLevels # EmptyMap
    /\ LET gone == IF symbol # "" THEN {ToUpperCase(symbol)} ELSE DOMAIN tradeLevels
           map == [t \in (DOMAIN tradeLevels) \ gone |-> tradeLevels[t]]
       IN  /\ tradeLevels' = map
           /\ stored' = saveLevels(map, stored)
           /\ calls' = Detach(calls, gone)
    /\ UNCHANGED <<largeTrades, tabInbox, intercepted, cvars, xvars, pvars, tvars>>

----------------------------------------------------------------------------
\* The background script starting again, and the popup, which edits
\* storage.local's tradeLevels key on its own (src/firefox/popup/popup.js).

\* init(): the cache is loaded from storage.local; nothing of the script that
\* ran before is left, so the step is taken with no call under way.
BackgroundInit ==
    /\ \A p \in DOMAIN calls : calls[p].pc = "replied"
    /\ tradeLevels' = stored
    /\ largeTrades' = EmptyMap
    /\ UNCHANGED <<stored, calls, tabInbox, intercepted, cvars, xvars, pvars, tvars>>

\* What the popup's symbol and price inputs hold when Add is pressed.
PopupSymbols == {"AAPL"}

PopupPrices == {1000, 1030}

\* The prices a level of the popup's rendered list can have.
RenderedPrices == {1000, 1010, 1025, 1030}

\* The level addManualLevel pushes: it has no rank and no dollars.
ManualLevel(symbol, price) ==
    [price |-> price, symbol |-> symbol, rank |-> Absent, dollars |-> NoDollars,
     source |-> "manual"]

\* loadLevels(): levels = stored.tradeLevels || {}
PopupLoad ==
    /\ popupLevels' = stored
    /\ UNCHANGED <<bvars, cvars, xvars, tvars>>

\* A popup that pushes without looking for the price.
PopupAddAlways(symbol, price) ==
    /\ popupLevels' = MapSet(popupLevels, symbol,
                             Append(MapGetOrEmpty(popupLevels, symbol),
                                    ManualLevel(symbol, price)))
    /\ stored' = popupLevels'
    /\ UNCHANGED <<tradeLevels, largeTrades, calls, tabInbox, intercepted, cvars, xvars, tvars>>

\* addManualLevel(): the level is pushed unless the symbol has one of that
\* price, and the popup's levels are written to storage.local.
PopupAdd(symbol, price) ==
    /\ LET existing == MapGetOrEmpty(popupLevels, symbol)
       IN  popupLevels' =
               MapSet(popupLevels, symbol,
                      IF \E i \in DOMAIN existing : existing[i].price = price
                      THEN existing
                      ELSE Append(existing, ManualLevel(symbol, price)))
    /\ stored' = popupLevels'
    /\ UNCHANGED <<tradeLevels, largeTrades, calls, tabInbox, intercepted, cvars, xvars, tvars>>

\* levels[symbol].filter(l => l.price !== price)
RECURSIVE WithoutPrice(_, _)
WithoutPrice(levels, price) ==
    IF levels = <<>> THEN <<>>
    ELSE IF Head(levels).price = price THEN WithoutPrice(Tail(levels), price)
    ELSE <<Head(levels)>> \o WithoutPrice(Tail(levels), price)

\* handleRemoveLevel(): the clicked level of the rendered list is filtered
\* out, a symbol left without levels is deleted, and the popup's levels are
\* written to storage.local.
PopupRemove(symbol, price) ==
    /\ symbol \in DOMAIN popupLevels
    /\ \E i \in DOMAIN popupLevels[symbol] : popupLevels[symbol][i].price = price
    /\ LET left == WithoutPrice(popupLevels[symbol], price)
       IN  popupLevels' = IF left = <<>> THEN MapDelete(popupLevels, symbol)
                          ELSE MapSet(popupLevels, symbol, left)
    /\ stored' = popupLevels'
    /\ UNCHANGED <<tradeLevels, largeTrades, calls, tabInbox, intercepted, cvars, xvars, tvars>>

\* clearCache(): levels = {} and storage.local's tradeLevels = {}.
PopupClearCache ==
    /\ popupLevels # EmptyMap \/ stored # EmptyMap
    /\ popupLevels' = EmptyMap
    /\ stored' = EmptyMap
    /\ UNCHANGED <<tradeLevels, largeTrades, calls, tabInbox, intercepted, cvars, xvars, tvars>>

----------------------------------------------------------------------------
\* The content script (src/unnamed/part_003, its first script) and the
\* injected script's side of the commands it sends (the injected script in
\* src/firefox/background.js).
\*
\* A job is one message the content script handles.  Its record holds the
\* locals of the handler: items (the levels or trades of a draw message), i
\* (the index of the item, or of the tracked identifier, whose command is
\* out), results, and for clearDrawnLevels ids, the array its for-of loop
\* iterates, with live saying that this is still the array drawnShapeIds
\* names (a push of another job shows in the loop until drawnShapeIds is
\* assigned a new array).  hows and cleared record how the injected script
\* dealt with each command of the loop, and the identifiers the clear step
\* of a draw removed from the chart, clearOk that it succeeded; solo says
\* that every earlier message had been answered when this one arrived.
\*
\* A command that times out is one the injected script never handles.

\* How many messages the content script handles.
MaxMessages == 2

TimeoutMessage == "Timeout waiting for injected script response"

NoChartMessage == "TradingView chart API not available"

\* The message of an exception the page's chart API throws.
ThrownMessage == "activeChart is not a function"

\* The message of the TypeError of reading a property of null.
NullMessage == "result is null"

\* null
Null == [null |-> TRUE]

\* No message of the injected script within the 5 seconds.
NoReply == [timeout |-> TRUE]

\* The message the injected script's handler posts: result is null when the
\* command threw, error is null ("" here, falsy either way) when it did not
\* or when what was thrown has no message.
InjectedReply(how, result) ==
    IF how = "timeout" THEN NoReply
    ELSE IF how = "no-chart" THEN [result |-> Null, error |-> NoChartMessage]
    ELSE IF how = "threw" THEN [result |-> Null, error |-> ThrownMessage]
    ELSE IF how = "threw-blank" THEN [result |-> Null, error |-> ""]
    ELSE [result |-> result, error |-> ""]

\* A timer that resolves the promise with nothing instead of rejecting it.
sendToInjectedTimeoutResolves(reply) ==
    IF reply = NoReply THEN [rejected |-> FALSE, error |-> "", result |-> Null]
    ELSE IF reply.error # "" THEN [rejected |-> TRUE, error |-> reply.error, result |-> Null]
    ELSE [rejected |-> FALSE, error |-> "", result |-> reply.result]

\* sendToInjected(command, data), as the promise settles: rejected by the
\* timer or by a reply with an error, else resolved with the reply's result.
sendToInjected(reply) ==
    IF reply = NoReply THEN [rejected |-> TRUE, error |-> TimeoutMessage, result |-> Null]
    ELSE IF reply.error # "" THEN [rejected |-> TRUE, error |-> reply.error, result |-> Null]
    ELSE [rejected |-> FALSE, error |-> "", result |-> reply.result]

\* How the injected script can deal with a command.
DrawHows == {"drawn", "no-chart", "threw-blank", "timeout"}

NoteHows == DrawHows \cup {"skipped"}

ClearHows == {"cleared", "no-chart", "timeout"}

RemoveHows == {"removed", "no-chart", "timeout"}

ReadyHows == {"ready", "not-ready", "threw", "timeout"}

SymbolHows == {"symbol", "no-symbol", "threw", "timeout"}

\* The items of a DRAW_LEVELS message and the trades of a DRAW_NOTES message.
LineItem == [type |-> "level", price |-> 1000, label |-> <<"V", "L", " ", "#", "1">>]

ZoneItem ==
    [type |-> "zone", midPrice |-> 1005, highPrice |-> 1010, lowPrice |-> 1000,
     label |-> <<"V", "L", " ", "#", "1", "-", "2">>]

LevelBatches == {<<>>, <<LineItem>>, <<ZoneItem, LineItem>>}

DarkTrade == [price |-> 1000, timestamp |-> 1748563000, rank |-> 1, darkPool |-> TRUE]

LitTrade == [price |-> 1010, timestamp |-> 1748563001, rank |-> 2, darkPool |-> FALSE]

NoteBatches == {<<DarkTrade, LitTrade>>}

\* r[f] is there and truthy.
Truthy(r, f) == f \in DOMAIN r /\ r[f] = TRUE

\* checkTradingViewReady(): result.ready, false from the catch.
checkTradingViewReady(settled) ==
    IF settled.rejected \/ settled.result = Null THEN FALSE ELSE settled.result.ready

\* getCurrentSymbol(): result.symbol, null from the catch.
getCurrentSymbol(settled) ==
    IF settled.rejected \/ settled.result = Null THEN Null ELSE settled.result.symbol

\* The entry the catch of drawLevels pushes.
LevelFailure(item, error) ==
    [type |-> item.type,
     price |-> IF item.type = "zone" THEN item.midPrice ELSE item.price,
     success |-> FALSE, error |-> error]

\* The entry drawLevels pushes for a shape that was drawn.
LevelSuccess(item, shapeId) ==
    IF item.type = "zone"
    THEN [type |-> "zone", midPrice |-> item.midPrice, highPrice |-> item.highPrice,
          lowPrice |-> item.lowPrice, shapeId |-> shapeId, success |-> TRUE]
    ELSE [type |-> "level", price |-> item.price, shapeId |-> shapeId, success |-> TRUE]

\* A catch that records nothing.
DrawLevelsEntriesLosingFailures(item, settled) ==
    IF settled.rejected \/ settled.result = Null THEN <<>>
    ELSE IF settled.result.shapeId # 0
    THEN <<LevelSuccess(item, settled.result.shapeId)>>
    ELSE <<>>

\* What the body of the loop of drawLevels pushes onto results for one item.
DrawLevelsEntries(item, settled) ==
    IF settled.rejected THEN <<LevelFailure(item, settled.error)>>
    ELSE IF settled.result = Null THEN <<LevelFailure(item, NullMessage)>>
    ELSE IF settled.result.shapeId # 0
    THEN <<LevelSuccess(item, settled.result.shapeId)>>
    ELSE <<>>

\* The entry the catch of drawNotes pushes.
NoteFailure(trade, error) ==
    [price |-> trade.price, rank |-> trade.rank, success |-> FALSE, error |-> error]

\* What the body of the loop of drawNotes pushes onto results for one trade.
DrawNotesEntries(trade, settled) ==
    IF settled.rejected THEN <<NoteFailure(trade, settled.error)>>
    ELSE IF settled.result = Null THEN <<NoteFailure(trade, NullMessage)>>
    ELSE IF Truthy(settled.result, "skipped")
    THEN <<[price |-> trade.price, rank |-> trade.rank, skipped |-> TRUE,
            reason |-> settled.result.reason]>>
    ELSE IF settled.result.shapeId # 0
    THEN <<[price |-> trade.price, timestamp |-> trade.timestamp, rank |-> trade.rank,
            darkPool |-> trade.darkPool, shapeId |-> settled.result.shapeId,
            success |-> TRUE]>>
    ELSE <<>>

\* The identifiers the loop body pushes onto drawnShapeIds.
PushedIds(settled) ==
    IF ~settled.rejected /\ settled.result # Null /\ "shapeId" \in DOMAIN settled.result
    THEN <<settled.result.shapeId>> ELSE <<>>

\* What drawLevels returns.
DrawLevelsReply(results) ==
    [success |-> TRUE,
     drawn |-> Cardinality({k \in DOMAIN results : results[k].success}),
     failed |-> Cardinality({k \in DOMAIN results : ~results[k].success}),
     zones |-> Cardinality({k \in DOMAIN results :
                               results[k].type = "zone" /\ results[k].success}),
     levels |-> Cardinality({k \in DOMAIN results :
                                results[k].type = "level" /\ results[k].success}),
     results |-> results]

\* What drawNotes returns.
DrawNotesReply(results) ==
    LET successCount == Cardinality({k \in DOMAIN results : Truthy(results[k], "success")})
        dpCount == Cardinality({k \in DOMAIN results :
                                   Truthy(results[k], "success")
                                   /\ Truthy(results[k], "darkPool")})
    IN  [success |-> TRUE,
         drawn |-> successCount,
         skipped |-> Cardinality({k \in DOMAIN results : Truthy(results[k], "skipped")}),
         failed |-> Cardinality({k \in DOMAIN results :
                                    ~Truthy(results[k], "success")
                                    /\ ~Truthy(results[k], "skipped")}),
         darkPoolCount |-> dpCount,
         litCount |-> successCount - dpCount,
         results |-> results]

\* A reply that counts every REMOVE_SHAPE, failed or not.
ClearDrawnReplyCountingAll(results) ==
    [success |-> TRUE, removed |-> Len(results), results |-> results]

\* What clearDrawnLevels returns.
ClearDrawnReply(results) ==
    [success |-> TRUE,
     removed |-> Cardinality({k \in DOMAIN results : results[k].success}),
     results |-> results]

NewJob(type, items, pc) ==
    [type |-> type, items |-> items, pc |-> pc, i |-> 0, results |-> <<>>,
     hows |-> <<>>, ids |-> <<>>, live |-> FALSE, cleared |-> {}, clearOk |-> FALSE,
     reply |-> <<>>, solo |-> \A q \in DOMAIN jobs : jobs[q].pc = "done"]

\* The job returns: the listener's then answers the sender.
Finish(job, reply) == [job EXCEPT !.pc = "done", !.reply = <<reply>>]

\* Every clearDrawnLevels whose loop iterates the array drawnShapeIds names
\* sees what is pushed onto it.
SeePushed(js, pushed) ==
    [q \in DOMAIN js |->
        IF js[q].live /\ js[q].pc # "done"
        THEN [js[q] EXCEPT !.ids = @ \o pushed] ELSE js[q]]

\* drawnShapeIds = []: the loops that iterate the old array keep it to
\* themselves.
LoseArray(js) ==
    [q \in DOMAIN js |-> IF js[q].live THEN [js[q] EXCEPT !.live = FALSE] ELSE js[q]]

\* CHECK_TV_READY / GET_CURRENT_SYMBOL: the command is posted.
ReceiveQuery(type) ==
    /\ Len(jobs) < MaxMessages
    /\ jobs' = Append(jobs, NewJob(type, <<>>, "command"))
    /\ UNCHANGED <<drawnShapeIds, storedShapeIds, chart, created, bvars, cvars, xvars, pvars>>

\* CHECK_READY has settled.
ReadySettled(j, how) ==
    /\ jobs[j].pc = "command"
    /\ jobs[j].type = "CHECK_TV_READY"
    /\ LET settled == sendToInjected(InjectedReply(how, [ready |-> (how = "ready")]))
       IN  jobs' = [jobs EXCEPT ![j] =
                       Finish([@ EXCEPT !.hows = <<how>>],
                              [ready |-> checkTradingViewReady(settled)])]
    /\ UNCHANGED <<drawnShapeIds, storedShapeIds, chart, created, bvars, cvars, xvars, pvars>>

\* GET_SYMBOL has settled.
SymbolSettled(j, how) ==
    /\ jobs[j].pc = "command"
    /\ jobs[j].type = "GET_CURRENT_SYMBOL"
    /\ LET result == [symbol |-> IF how = "symbol" THEN "AAPL" ELSE Null]
           settled == sendToInjected(InjectedReply(how, result))
       IN  jobs' = [jobs EXCEPT ![j] =
                       Finish([@ EXCEPT !.hows = <<how>>],
                              [symbol |-> getCurrentSymbol(settled)])]
    /\ UNCHANGED <<drawnShapeIds, storedShapeIds, chart, created, bvars, cvars, xvars, pvars>>

\* A listener that leaves a draw message alone while another message is
\* being handled.
ListenerStartsWhenIdle(js) == \A q \in DOMAIN js : js[q].pc = "done"

\* The listener calls drawLevels / drawNotes for every draw message it gets,
\* whatever calls are running.
ListenerStarts(js) == TRUE

\* DRAW_LEVELS / DRAW_NOTES: drawLevels / drawNotes posts its clear command.
ReceiveDraw(type, items) ==
    /\ Len(jobs) < MaxMessages
    /\ ListenerStarts(jobs)
    /\ jobs' = Append(jobs, NewJob(type, items, "clear"))
    /\ UNCHANGED <<drawnShapeIds, storedShapeIds, chart, created, bvars, cvars, xvars, pvars>>

\* The shape name clearVlLines / clearVlNotes removes.
ClearedName(type) == IF type = "DRAW_LEVELS" THEN "horizontal_line" ELSE "text_note"

\* text.startsWith('VL')
StartsWithVL(text) == Len(text) >= 2 /\ text[1] = "V" /\ text[2] = "L"

\* A clear that looks at the text and not at the shape's name.
ClearedShapesOfAnyName(type, shapes) == {sh \in shapes : StartsWithVL(sh.text)}

\* The shapes clearVlLines / clearVlNotes removes from the chart: those of its
\* name whose text starts with 'VL'.
ClearedShapes(type, shapes) ==
    {sh \in shapes : sh.name = ClearedName(type) /\ StartsWithVL(sh.text)}

\* shapeConfig.text of drawLine / drawZone (the label drawLevels passes) and
\* of drawNote (`VL #${rank}${volLabel}`, the trades here without dollarVolume).
ShapeText(type, item) ==
    IF type = "DRAW_LEVELS" THEN item.label
    ELSE <<"V", "L", " ", "#">> \o NumToString(item.rank)

\* What a draw returns.
DrawReply(type, results) ==
    IF type = "DRAW_LEVELS" THEN DrawLevelsReply(results) ELSE DrawNotesReply(results)

\* CLEAR_VL_LINES / CLEAR_VL_NOTES has settled (clearVlLines / clearVlNotes
\* removed the VL shapes of its kind, or there was no chart, or no reply):
\* the draw goes on to its first item, or saves drawnShapeIds and returns.
ClearSettled(j, how) ==
    /\ jobs[j].pc = "clear"
    /\ LET gone == IF how = "cleared"
                   THEN ClearedShapes(jobs[j].type, chart)
                   ELSE {}
           job == [jobs[j] EXCEPT !.cleared = {sh.id : sh \in gone}, !.clearOk = (how = "cleared")]
       IN  /\ chart' = chart \ gone
           /\ IF job.items = <<>>
              THEN /\ jobs' = [jobs EXCEPT ![j] = Finish(job, DrawReply(job.type, <<>>))]
                   /\ storedShapeIds' = drawnShapeIds
              ELSE /\ jobs' = [jobs EXCEPT ![j] = [job EXCEPT !.pc = "item", !.i = 1]]
                   /\ UNCHANGED storedShapeIds
    /\ UNCHANGED <<drawnShapeIds, created, bvars, cvars, xvars, pvars>>

\* DRAW_LINE / DRAW_ZONE / DRAW_NOTE of item i has settled (drawLine, drawZone
\* or drawNote created the shape, or skipped the note, or threw, or no
\* reply): the loop body pushes, and the loop goes on to the next item, or
\* the draw saves drawnShapeIds and returns.
ItemSettled(j, how) ==
    /\ jobs[j].pc = "item"
    /\ how \in (IF jobs[j].type = "DRAW_LEVELS" THEN DrawHows ELSE NoteHows)
    /\ LET job == jobs[j]
           item == job.items[job.i]
           id == created + 1
           result == IF how = "skipped"
                     THEN [skipped |-> TRUE, reason |-> "outside_visible_range"]
                     ELSE [shapeId |-> id]
           settled == sendToInjected(InjectedReply(how, result))
           entries == IF job.type = "DRAW_LEVELS" THEN DrawLevelsEntries(item, settled)
                      ELSE DrawNotesEntries(item, settled)
           pushed == PushedIds(settled)
           results == job.results \o entries
           next == [job EXCEPT !.results = results, !.hows = Append(@, how)]
       IN  /\ chart' = IF how = "drawn"
                       THEN chart \cup {[id |-> id, name |-> ClearedName(job.type),
                                           text |-> ShapeText(job.type, item)]}
                       ELSE chart
           /\ created' = IF how = "drawn" THEN id ELSE created
           /\ drawnShapeIds' = drawnShapeIds \o pushed
           /\ IF job.i = Len(job.items)
              THEN /\ jobs' = SeePushed([jobs EXCEPT ![j] =
                                            Finish(next, DrawReply(job.type, results))],
                                        pushed)
                   /\ storedShapeIds' = drawnShapeIds'
              ELSE /\ jobs' = SeePushed([jobs EXCEPT ![j] = [next EXCEPT !.i = @ + 1]],
                                        pushed)
                   /\ UNCHANGED storedShapeIds
    /\ UNCHANGED <<bvars, cvars, xvars, pvars>>

\* A set that replaces the whole of storage.local by the keys it is given.
storageLocalSetReplacing(tradeLevelsKey) == EmptyMap

\* browser.storage.local.set({ drawnShapeIds }): the keys the object does not
\* name keep their value, the tradeLevels key among them.
storageLocalSet(tradeLevelsKey) == tradeLevelsKey

\* CLEAR_DRAWN: clearDrawnLevels posts REMOVE_SHAPE for the first tracked
\* identifier, or with none tracked empties drawnShapeIds and returns.
ReceiveClearDrawn ==
    /\ Len(jobs) < MaxMessages
    /\ LET job == NewJob("CLEAR_DRAWN", <<>>, "remove")
       IN  IF drawnShapeIds = <<>>
           THEN /\ jobs' = Append(LoseArray(jobs), Finish(job, ClearDrawnReply(<<>>)))
                /\ storedShapeIds' = <<>>
                /\ stored' = storageLocalSet(stored)
           ELSE /\ jobs' = Append(jobs, [job EXCEPT !.i = 1, !.ids = drawnShapeIds,
                                                    !.live = TRUE])
                /\ UNCHANGED <<storedShapeIds, stored>>
    /\ UNCHANGED <<drawnShapeIds, chart, created, tradeLevels, largeTrades, calls,
                   tabInbox, intercepted, cvars, xvars, pvars>>

\* The entry clearDrawnLevels pushes for one identifier.
RemoveEntry(shapeId, settled) ==
    IF settled.rejected THEN [shapeId |-> shapeId, success |-> FALSE, error |-> settled.error]
    ELSE [shapeId |-> shapeId, success |-> TRUE]

\* REMOVE_SHAPE of identifier i has settled (removeShape removed the entity,
\* or there was no chart, or no reply): the loop goes on to the next
\* identifier, or clearDrawnLevels empties drawnShapeIds and returns.
RemoveSettled(j, how) ==
    /\ jobs[j].pc = "remove"
    /\ LET job == jobs[j]
           shapeId == job.ids[job.i]
           settled == sendToInjected(
                          InjectedReply(how, [success |-> TRUE, shapeId |-> shapeId]))
           results == Append(job.results, RemoveEntry(shapeId, settled))
           next == [job EXCEPT !.results = results, !.hows = Append(@, how)]
       IN  /\ chart' = IF how = "removed" THEN {sh \in chart : sh.id # shapeId} ELSE chart
           /\ IF job.i = Len(job.ids)
              THEN /\ jobs' = LoseArray([jobs EXCEPT ![j] =
                                            Finish(next, ClearDrawnReply(results))])
                   /\ drawnShapeIds' = <<>>
                   /\ storedShapeIds' = <<>>
                   /\ stored' = storageLocalSet(stored)
              ELSE /\ jobs' = [jobs EXCEPT ![j] = [next EXCEPT !.i = @ + 1]]
                   /\ UNCHANGED <<drawnShapeIds, storedShapeIds, stored>>
    /\ UNCHANGED <<created, tradeLevels, largeTrades, calls, tabInbox, intercepted,
                   cvars, xvars, pvars>>

\* What storage.local.get('drawnShapeIds') can give the load: the key as it
\* was when the script started (atStart), or as it is now.
LoadedIds(atStart) == {atStart, storedShapeIds}

\* loadDrawnShapeIds() has its answer from storage.local:
\* drawnShapeIds = stored.drawnShapeIds || [], a new array.
LoadSettled(ids) ==
    /\ loading
    /\ loading' = FALSE
    /\ drawnShapeIds' = ids
    /\ jobs' = LoseArray(jobs)
    /\ UNCHANGED <<storedShapeIds, chart, created, handled, bvars, cvars, mvars, pvars,
                   qvars>>

----------------------------------------------------------------------------
\* sendToInjected step by step (src/unnamed/part_003): the promise of every
\* call, its message listener and its timer, and the window's message queue.
\* A request's messageId is its index (Date.now() and Math.random() give every
\* call its own); outcome is <<>> while the promise is pending and then holds
\* how it settled; calls counts the resolve / reject calls made on it.

\* How many sendToInjected calls are made.
MaxRequests == 2

\* A promise on which every call of resolve / reject takes effect.
SettleOverwriting(request, outcome) ==
    [request EXCEPT !.outcome = <<outcome>>, !.calls = @ + 1]

\* resolve(...) / reject(...) on the request's promise: the first call
\* settles it, a later one does nothing.
Settle(request, outcome) ==
    [request EXCEPT !.outcome = IF @ = <<>> THEN <<outcome>> ELSE @, !.calls = @ + 1]

\* A handler that takes any message of the injected script for its reply.
HandlerMatchesAny(request, message) ==
    request.listener /\ message.source = "vl-tv-injected"

\* The tests of handler: a message of the injected script with the
\* request's messageId, seen while the listener is registered.
HandlerMatches(request, message) ==
    /\ request.listener
    /\ message.source = "vl-tv-injected"
    /\ message.messageId = request.messageId

\* sendToInjected(command): the listener is added, the timer set and the
\* command posted.
SendCommand ==
    /\ Len(requests) < MaxRequests
    /\ LET messageId == Len(requests) + 1
       IN  /\ requests' = Append(requests,
                                 [messageId |-> messageId, listener |-> TRUE,
                                  timer |-> TRUE, outcome |-> <<>>, calls |-> 0])
           /\ mail' = mail \cup {[source |-> "vl-tv-content", messageId |-> messageId,
                                  result |-> Null, error |-> ""]}
    /\ UNCHANGED <<bvars, cvars, mvars, pvars, tvars, ivars, svars>>

\* The window dispatches a command: the handlers of the content script
\* ignore it, the injected script handles it and posts its reply.
DeliverCommand(message, how) ==
    /\ message \in mail
    /\ message.source = "vl-tv-content"
    /\ LET reply == InjectedReply(how, [shapeId |-> message.messageId])
       IN  mail' = (mail \ {message})
                       \cup {[source |-> "vl-tv-injected", messageId |-> message.messageId,
                              result |-> reply.result, error |-> reply.error]}
    /\ UNCHANGED <<requests, bvars, cvars, mvars, pvars, tvars, ivars, svars>>

\* The window dispatches a message of source 'vl-tv-injected': every handler
\* it matches removes its listener and settles its promise.
DeliverReply(message) ==
    /\ message \in mail
    /\ message.source = "vl-tv-injected"
    /\ mail' = mail \ {message}
    /\ requests' =
           [r \in DOMAIN requests |->
               IF HandlerMatches(requests[r], message)
               THEN Settle([requests[r] EXCEPT !.listener = FALSE],
                           sendToInjected([result |-> message.result,
                                           error |-> message.error]))
               ELSE requests[r]]
    /\ UNCHANGED <<bvars, cvars, mvars, pvars, tvars, ivars, svars>>

\* The 5 seconds of request r are over: the listener is removed and reject
\* is called.
TimerFires(r) ==
    /\ requests[r].timer
    /\ requests' = [requests EXCEPT ![r] =
                       Settle([@ EXCEPT !.listener = FALSE, !.timer = FALSE],
                              sendToInjected(NoReply))]
    /\ UNCHANGED <<mail, bvars, cvars, mvars, pvars, tvars, ivars, svars>>

\* Something on the page posts a message of source 'vl-tv-injected' with
\* messageId id; 0 is the messageId of no request.
PostStray(id) ==
    /\ mail' = mail \cup {[source |-> "vl-tv-injected", messageId |-> id,
                           result |-> [shapeId |-> 0], error |-> ""]}
    /\ mail' # mail
    /\ UNCHANGED <<requests, bvars, cvars, mvars, pvars, tvars, ivars, svars>>

----------------------------------------------------------------------------
\* The injected script's message handler on its own (the injected script in
\* src/firefox/background.js): one command taken from the page's message
\* queue, run against the chart or against a page whose chart API is not
\* there, and the reply it posts.

\* How many commands the handler is given.
MaxCommands == 2

\* The commands of the handler that go to the chart, and one it does not know.
DrawCommands == {"DRAW_LINE", "DRAW_ZONE", "DRAW_NOTE"}

ClearCommands == {"CLEAR_VL_SHAPES", "CLEAR_VL_LINES", "CLEAR_VL_NOTES"}

QueryCommands == {"GET_ALL_SHAPES", "GET_VISIBLE_RANGE"}

InjectedCommands ==
    DrawCommands \cup ClearCommands \cup QueryCommands \cup {"REMOVE_SHAPE", "PING"}

\* chart.getVisibleRange() of the chart of the model.
VisibleRange == [from |-> 1748500000, to |-> 1748600000]

\* The data a command is posted with.
CommandData(command, shapes) ==
    IF command = "DRAW_LINE" THEN {LineItem}
    ELSE IF command = "DRAW_ZONE" THEN {ZoneItem}
    ELSE IF command = "DRAW_NOTE" THEN {DarkTrade}
    ELSE IF command = "REMOVE_SHAPE" THEN {[shapeId |-> sh.id] : sh \in shapes}
    ELSE {Null}

\* A handler whose every function throws when the chart API is not there.
NoChartReplyAlwaysThrows(command) == [result |-> Null, error |-> NoChartMessage]

\* The reply of a command when getChartApi() returns null: drawLine, drawZone,
\* drawNote and removeShape throw, clearVlShapes / clearVlLines /
\* clearVlNotes return { removed: 0 }, getAllShapes returns { shapes: [] }
\* (the list is a set here) and getVisibleTimeRange returns null.
NoChartReply(command) ==
    IF command \in DrawCommands \cup {"REMOVE_SHAPE"}
    THEN [result |-> Null, error |-> NoChartMessage]
    ELSE IF command \in ClearCommands THEN [result |-> [removed |-> 0], error |-> ""]
    ELSE IF command = "GET_ALL_SHAPES" THEN [result |-> [shapes |-> {}], error |-> ""]
    ELSE [result |-> Null, error |-> ""]

\* The shapes a clear command removes: clearVlShapes those of any name whose
\* text starts with 'VL', clearVlLines and clearVlNotes those of their name.
RemovedBy(command, shapes) ==
    IF command = "CLEAR_VL_SHAPES" THEN {sh \in shapes : StartsWithVL(sh.text)}
    ELSE IF command = "CLEAR_VL_LINES" THEN ClearedShapes("DRAW_LEVELS", shapes)
    ELSE ClearedShapes("DRAW_NOTES", shapes)

\* The shape drawLine / drawZone / drawNote creates with identifier id.
CreatedShape(command, data, id) ==
    [id |-> id,
     name |-> IF command = "DRAW_NOTE" THEN "text_note" ELSE "horizontal_line",
     text |-> ShapeText(IF command = "DRAW_NOTE" THEN "DRAW_NOTES" ELSE "DRAW_LEVELS", data)]

\* The reply of a command with the chart API there, and the shapes on the
\* chart afterwards.
ChartReply(command, data, shapes, id) ==
    IF command = "DRAW_NOTE"
       /\ (data.timestamp < VisibleRange.from \/ data.timestamp > VisibleRange.to)
    THEN [result |-> [skipped |-> TRUE, reason |-> "outside_visible_range"], error |-> "",
          shapes |-> shapes]
    ELSE IF command \in DrawCommands
    THEN [result |-> [shapeId |-> id], error |-> "",
          shapes |-> shapes \cup {CreatedShape(command, data, id)}]
    ELSE IF command = "REMOVE_SHAPE"
    THEN [result |-> [success |-> TRUE, shapeId |-> data.shapeId], error |-> "",
          shapes |-> {sh \in shapes : sh.id # data.shapeId}]
    ELSE IF command \in ClearCommands
    THEN [result |-> [removed |-> Cardinality(RemovedBy(command, shapes))], error |-> "",
          shapes |-> shapes \ RemovedBy(command, shapes)]
    ELSE IF command = "GET_ALL_SHAPES"
    THEN [result |-> [shapes |-> {[id |-> sh.id, name |-> sh.name] : sh \in shapes}],
          error |-> "", shapes |-> shapes]
    ELSE IF command = "GET_VISIBLE_RANGE"
    THEN [result |-> VisibleRange, error |-> "", shapes |-> shapes]
    ELSE [result |-> Null, error |-> "Unknown command: PING", shapes |-> shapes]

\* The message handler of the injected script takes one command: the switch
\* runs the command's function, the catch turns what it throws into error,
\* and the reply is posted.
HandleCommand(command, data, hasChart) ==
    /\ Len(handled) < MaxCommands
    /\ LET known == command \in InjectedCommands \ {"PING"}
           reply == IF hasChart \/ ~known
                    THEN ChartReply(command, data, chart, created + 1)
                    ELSE NoChartReply(command) @@ [shapes |-> chart]
       IN  /\ chart' = reply.shapes
           /\ created' = IF reply.shapes \subseteq chart THEN created ELSE created + 1
           /\ handled' = Append(handled,
                                [command |-> command, hasChart |-> hasChart,
                                 result |-> reply.result, error |-> reply.error])
    /\ UNCHANGED <<drawnShapeIds, storedShapeIds, jobs, bvars, cvars, mvars, pvars, svars,
                   qvars>>

----------------------------------------------------------------------------
\* Ticker symbol translation (the ticker map of src/firefox/background.js).
\* A ticker is a sequence of one-character strings; '' is <<>>.

\* The longest generated ticker.
MaxSymbolLen == 4

\* null, which tvToVl and vlToTv return for a falsy ticker: a value no
\* ticker has.
NoTicker == <<"null">>

UpperLetters ==
    <<"A", "B", "C", "D", "E", "F", "G", "H", "I", "J", "K", "L", "M",
      "N", "O", "P", "Q", "R", "S", "T", "U", "V", "W", "X", "Y", "Z">>

LowerLetters ==
    <<"a", "b", "c", "d", "e", "f", "g", "h", "i", "j", "k", "l", "m",
      "n", "o", "p", "q", "r", "s", "t", "u", "v", "w", "x", "y", "z">>

\* [A-Z]
IsUpperLetter(ch) == \E i \in DOMAIN UpperLetters : UpperLetters[i] = ch

\* String.prototype.toUpperCase, character by character.
StrToUpperCase(text) ==
    [i \in DOMAIN text |->
        IF \E n \in DOMAIN LowerLetters : LowerLetters[n] = text[i]
        THEN UpperLetters[CHOOSE n \in DOMAIN LowerLetters : LowerLetters[n] = text[i]]
        ELSE text[i]]

\* String.prototype.trim: the spaces at both ends go.
RECURSIVE StrTrim(_)
StrTrim(text) ==
    IF text = <<>> THEN <<>>
    ELSE IF Head(text) = " " THEN StrTrim(Tail(text))
    ELSE IF text[Len(text)] = " " THEN StrTrim(SubSeq(text, 1, Len(text) - 1))
    ELSE text

\* ticker.includes(':')
HasColon(text) == \E i \in DOMAIN text : text[i] = ":"

\* ticker.split(':').pop(): what follows the last colon.
RECURSIVE SplitPop(_)
SplitPop(text) ==
    IF text = <<>> \/ text[Len(text)] = ":" THEN <<>>
    ELSE SplitPop(SubSeq(text, 1, Len(text) - 1)) \o <<text[Len(text)]>>

\* const TV_TO_VL_MAP = {}: no exception is listed.
TV_TO_VL_MAP == [k \in {} |-> <<>>]

\* const VL_TO_TV_MAP = { 'BRKA': 'BRK.A', 'BRKB': 'BRK.B' }
VL_TO_TV_MAP ==
    (<<"B", "R", "K", "A">> :> <<"B", "R", "K", ".", "A">>)
    @@ (<<"B", "R", "K", "B">> :> <<"B", "R", "K", ".", "B">>)

\* MAP[ticker] is truthy.
Listed(map, ticker) == ticker \in DOMAIN map /\ map[ticker] # <<>>

COUNTRY_SUFFIXES ==
    << <<".", "U", "S">>, <<".", "U", "K">>, <<".", "D", "E">>, <<".", "F", "R">>,
       <<".", "J", "P">>, <<".", "H", "K">>, <<".", "A", "U">>, <<".", "C", "A">> >>

\* ticker.endsWith(suffix)
EndsWith(text, suffix) ==
    /\ Len(text) >= Len(suffix)
    /\ SubSeq(text, Len(text) - Len(suffix) + 1, Len(text)) = suffix

\* The loop over COUNTRY_SUFFIXES: the first suffix the ticker ends with is
\* sliced off and the loop breaks.
StripCountrySuffix(ticker) ==
    LET hits == {i \in DOMAIN COUNTRY_SUFFIXES : EndsWith(ticker, COUNTRY_SUFFIXES[i])}
    IN  IF hits = {} THEN ticker
        ELSE LET first == CHOOSE i \in hits : \A j \in hits : i <= j
             IN  SubSeq(ticker, 1, Len(ticker) - Len(COUNTRY_SUFFIXES[first]))

\* ticker.match(/^([A-Z]+)\.([A-Z])$/)
DotMatch(ticker) ==
    /\ Len(ticker) >= 3
    /\ IsUpperLetter(ticker[Len(ticker)])
    /\ ticker[Len(ticker) - 1] = "."
    /\ \A i \in 1..(Len(ticker) - 2) : IsUpperLetter(ticker[i])

\* dotMatch[1] + dotMatch[2]
CollapseShareClass(ticker) ==
    IF DotMatch(ticker)
    THEN SubSeq(ticker, 1, Len(ticker) - 2) \o <<ticker[Len(ticker)]>>
    ELSE ticker

\* A tvToVl without its first line: '' goes through the rules.
tvToVlUnguarded(tvTicker) ==
    LET upper == StrTrim(StrToUpperCase(tvTicker))
        ticker == IF HasColon(upper) THEN SplitPop(upper) ELSE upper
    IN  IF Listed(TV_TO_VL_MAP, ticker) THEN TV_TO_VL_MAP[ticker]
        ELSE CollapseShareClass(StripCountrySuffix(ticker))

\* tvToVl(tvTicker)
tvToVl(tvTicker) ==
    IF tvTicker = <<>> THEN NoTicker
    ELSE LET upper == StrTrim(StrToUpperCase(tvTicker))
             ticker == IF HasColon(upper) THEN SplitPop(upper) ELSE upper
         IN  IF Listed(TV_TO_VL_MAP, ticker) THEN TV_TO_VL_MAP[ticker]
             ELSE CollapseShareClass(StripCountrySuffix(ticker))

\* A vlToTv that puts a dot before the last letter of every ticker.
vlToTvReconstructing(vlTicker) ==
    IF vlTicker = <<>> THEN NoTicker
    ELSE LET ticker == StrTrim(StrToUpperCase(vlTicker))
         IN  IF Len(ticker) >= 2
             THEN SubSeq(ticker, 1, Len(ticker) - 1) \o <<".", ticker[Len(ticker)]>>
             ELSE ticker

\* vlToTv(vlTicker)
vlToTv(vlTicker) ==
    IF vlTicker = <<>> THEN NoTicker
    ELSE LET ticker == StrTrim(StrToUpperCase(vlTicker))
         IN  IF Listed(VL_TO_TV_MAP, ticker) THEN VL_TO_TV_MAP[ticker] ELSE ticker

\* The characters of the generated tickers.
SymbolChars == {"b", "K", "U", "S", ".", ":", " "}

\* Tickers drawn beside the generated ones: BRKB, BRKA, brkb, BRK.B, brk.a,
\* BFB, NASDAQ:AAPL, AAPL.US, BRK.B.US, AAPL.US.US, a:b:BRK.B.
NamedSymbols ==
    { <<"B", "R", "K", "B">>,
      <<"B", "R", "K", "A">>,
      <<"b", "r", "k", "b">>,
      <<"B", "R", "K", ".", "B">>,
      <<"b", "r", "k", ".", "a">>,
      <<"B", "F", "B">>,
      <<"N", "A", "S", "D", "A", "Q", ":", "A", "A", "P", "L">>,
      <<"A", "A", "P", "L", ".", "U", "S">>,
      <<"B", "R", "K", ".", "B", ".", "U", "S">>,
      <<"A", "A", "P", "L", ".", "U", "S", ".", "U", "S">>,
      <<"a", ":", "b", ":", "B", "R", "K", ".", "B">> }

MInit ==
    /\ symIn \in SeqsUpTo(SymbolChars, MaxSymbolLen) \cup NamedSymbols
    /\ symVl = <<>>
    /\ symTv = <<>>
    /\ symBack = <<>>
    /\ symPc = "input"

MIdle ==
    /\ symIn = <<>>
    /\ symVl = <<>>
    /\ symTv = <<>>
    /\ symBack = <<>>
    /\ symPc = "idle"

\* tickerMap.tvToVl(symIn) and tickerMap.vlToTv(symIn)
RunTranslate ==
    /\ symPc = "input"
    /\ symVl' = tvToVl(symIn)
    /\ symTv' = vlToTv(symIn)
    /\ symPc' = "translated"
    /\ UNCHANGED <<symIn, symBack, cvars, bvars, pvars, tvars, ivars, svars, qvars>>

\* tickerMap.tvToVl(tickerMap.vlToTv(symIn))
RunRoundTrip ==
    /\ symPc = "translated"
    /\ symBack' = IF symTv = NoTicker THEN NoTicker ELSE tvToVl(symTv)
    /\ symPc' = "returned"
    /\ UNCHANGED <<symIn, symVl, symTv, cvars, bvars, pvars, tvars, ivars, svars, qvars>>

PIdle == popupLevels = EmptyMap

IIdle == handled = <<>> /\ loading = FALSE /\ requests = <<>> /\ mail = {}

TIdle ==
    /\ drawnShapeIds = <<>>
    /\ storedShapeIds = <<>>
    /\ chart = {}
    /\ created = 0
    /\ jobs = <<>>

CIdle ==
    /\ cLevels = <<>>
    /\ cThreshold = 0
    /\ cItems = <<>>
    /\ cLabels = <<>>
    /\ cPc = "idle"

Init == CIdle /\ BInit /\ PIdle /\ TIdle /\ MIdle /\ IIdle

Next ==
    \/ \E kind \in {"levels", "trades"}, symbol \in FetchSymbols, tabId \in {NoTab, ChartTab} :
           ReceiveFetch(kind, symbol, tabId)
    \/ \E p \in DOMAIN calls, lookup \in CookieLookups :
           AuthChecked(p, checkVlAuth(lookup).authenticated)
    \/ \E p \in DOMAIN calls, status \in HttpStatuses : HttpSettled(p, status)
    \/ \E p \in DOMAIN calls : JsonFailed(p)
    \/ \E p \in DOMAIN calls : \E data \in LevelBodies(calls[p].ticker) :
           LevelsParsed(p, data)
    \/ \E p \in DOMAIN calls : \E data \in TradeBodies(calls[p].ticker) :
           TradesParsed(p, data)
    \/ \E p \in DOMAIN calls, e \in ClusteringEnabledSettings,
          t \in ClusterThresholdSettings : SettingsRead(p, e, t)
    \/ \E p \in DOMAIN calls, outcome \in DrawOutcomes : DrawSettled(p, outcome)
    \/ \E data \in InterceptedBodies : Intercept(data)
    \/ \E symbol \in MsgSymbols : ClearLevels(symbol)

Spec == Init /\ [][Next]_vars

ClusterInit == CInit /\ BIdle /\ PIdle /\ TIdle /\ MIdle /\ IIdle

\* The level cache under everything that writes it: direct fetches that
\* succeed, intercepted responses, CLEAR_LEVELS, the popup's edits of
\* storage.local and the background script loading storage.local again.
CacheNext ==
    \/ \E symbol \in FetchSymbols \ {""} : ReceiveFetch("levels", symbol, NoTab)
    \/ \E p \in DOMAIN calls : AuthChecked(p, TRUE)
    \/ \E p \in DOMAIN calls : HttpSettled(p, 200)
    \/ \E p \in DOMAIN calls : \E data \in LevelBodies(calls[p].ticker) :
           LevelsParsed(p, data)
    \/ \E data \in InterceptedBodies : Intercept(data)
    \/ \E symbol \in MsgSymbols : ClearLevels(symbol)
    \/ BackgroundInit
    \/ PopupLoad
    \/ \E symbol \in PopupSymbols, price \in PopupPrices : PopupAdd(symbol, price)
    \/ \E symbol \in Tickers, price \in RenderedPrices : PopupRemove(symbol, price)
    \/ PopupClearCache

SpecCache == Init /\ [][CacheNext]_vars

\* The content script under the messages it handles, two at a time at most.
ContentNext ==
    \/ \E type \in {"CHECK_TV_READY", "GET_CURRENT_SYMBOL"} : ReceiveQuery(type)
    \/ \E j \in DOMAIN jobs, how \in ReadyHows : ReadySettled(j, how)
    \/ \E j \in DOMAIN jobs, how \in SymbolHows : SymbolSettled(j, how)
    \/ \E items \in LevelBatches : ReceiveDraw("DRAW_LEVELS", items)
    \/ \E items \in NoteBatches : ReceiveDraw("DRAW_NOTES", items)
    \/ \E j \in DOMAIN jobs, how \in ClearHows : ClearSettled(j, how)
    \/ \E j \in DOMAIN jobs, how \in NoteHows : ItemSettled(j, how)
    \/ ReceiveClearDrawn
    \/ \E j \in DOMAIN jobs, how \in RemoveHows : RemoveSettled(j, how)
    \/ \E data \in InterceptedBodies : Intercept(data)

SpecContent == Init /\ [][ContentNext]_vars

\* Shapes the extension did not draw in this page load: the user's own
\* support line and note, a line and a note whose text starts with 'VL' (left
\* by an earlier page load, their identifiers tracked nowhere), and a
\* trend line whose text starts with 'VL'.
UserShapes ==
    { [id |-> 101, name |-> "horizontal_line", text |-> <<"S", "R">>],
      [id |-> 102, name |-> "text_note", text |-> <<>>],
      [id |-> 103, name |-> "horizontal_line", text |-> <<"V", "L", " ", "#", "9">>],
      [id |-> 104, name |-> "text_note", text |-> <<"V", "L", " ", "#", "3">>],
      [id |-> 105, name |-> "trend_line", text |-> <<"V", "L", "O">>] }

ShapesInit ==
    /\ CIdle /\ BInit /\ PIdle /\ MIdle /\ IIdle
    /\ drawnShapeIds = <<>>
    /\ storedShapeIds = <<>>
    /\ chart = UserShapes
    /\ created = 0
    /\ jobs = <<>>

\* The content script on a chart that holds shapes of the user's.
SpecShapes == ShapesInit /\ [][ContentNext]_vars

\* The identifiers storage.local holds when the page loads: the VL line of
\* the earlier page load.
StoredAtStart == <<103>>

\* The content script from its first line: loadDrawnShapeIds() is out, the
\* listener is registered and messages can arrive.
StartupInit ==
    /\ CIdle /\ BInit /\ PIdle /\ MIdle
    /\ handled = <<>>
    /\ requests = <<>>
    /\ mail = {}
    /\ loading = TRUE
    /\ drawnShapeIds = <<>>
    /\ storedShapeIds = StoredAtStart
    /\ chart = UserShapes
    /\ created = 0
    /\ jobs = <<>>

StartupNext ==
    \/ \E ids \in LoadedIds(StoredAtStart) : LoadSettled(ids)
    \/ \E items \in LevelBatches : ReceiveDraw("DRAW_LEVELS", items)
    \/ \E j \in DOMAIN jobs, how \in ClearHows : ClearSettled(j, how)
    \/ \E j \in DOMAIN jobs, how \in DrawHows : ItemSettled(j, how)
    \/ ReceiveClearDrawn
    \/ \E j \in DOMAIN jobs, how \in RemoveHows : RemoveSettled(j, how)

SpecStartup == StartupInit /\ [][StartupNext]_vars

\* sendToInjected under every order of replies, timers and stray messages.
BridgeNext ==
    \/ SendCommand
    \/ \E message \in mail, how \in {"drawn", "threw"} : DeliverCommand(message, how)
    \/ \E message \in mail : DeliverReply(message)
    \/ \E r \in DOMAIN requests : TimerFires(r)
    \/ \E id \in 0..Len(requests) : PostStray(id)

SpecBridge == Init /\ [][BridgeNext]_vars

\* The injected script's handler on a chart that holds shapes of the user's.
InjectedNext ==
    \E command \in InjectedCommands, hasChart \in BOOLEAN :
        \E data \in CommandData(command, chart) : HandleCommand(command, data, hasChart)

SpecInjected == ShapesInit /\ [][InjectedNext]_vars

ClusterNext == RunCluster \/ RunLabels

\* The label formatters on drawn levels: one level of every amount and rank,
\* alone or with a second level half a percent above it, clustered with a
\* threshold of 0 or 1 percent and then labelled.

\* Dollar amounts at and around the bounds of the buckets of formatDollars.
FormatAmounts ==
    { Amt(0, 1), Amt(0, 999), Amt(0, 1000), Amt(0, 1499), Amt(0, 1500),
      Amt(0, 999499), Amt(0, 999500), Amt(0, 999999),
      Amt(1, 0), Amt(1, 499999), Amt(1, 500000), Amt(250, 0),
      Amt(999, 499999), Amt(999, 999999),
      Amt(1000, 0), Amt(1250, 0), Amt(1600, 0), Amt(1649, 999999),
      Amt(2960, 0), Amt(12340, 0) }

\* item.Dates || item.dates of a row: none (<<>>), or the start and end of
\* "2025-09-24 - 2025-11-25".
FormatDates ==
    { <<>>,
      << <<"2", "0", "2", "5", "-", "0", "9", "-", "2", "4">>,
         <<"2", "0", "2", "5", "-", "1", "1", "-", "2", "5">> >> }

FormatLevels ==
    { [price |-> 100 * PriceScale, symbol |-> "AAPL", rank |-> r, dollars |-> d,
       dates |-> dates, source |-> "test"] :
          r \in {Absent, 3}, d \in FormatAmounts \cup {NoDollars}, dates \in FormatDates }

FormatMates ==
    { [price |-> 1005, symbol |-> "AAPL", rank |-> r, dollars |-> d,
       dates |-> <<>>, source |-> "test"] :
          r \in {Absent, 1, 3}, d \in {NoDollars, Amt(0, 500)} }

FormatInit ==
    /\ cLevels \in {<<l>> : l \in FormatLevels}
                    \cup {<<l, m>> : l \in FormatLevels, m \in FormatMates}
                    \cup {<<m, l>> : l \in FormatLevels, m \in FormatMates}
    /\ cThreshold \in {0, 1 * ThrScale}
    /\ cItems = <<>>
    /\ cLabels = <<>>
    /\ cPc = "input"
    /\ BIdle /\ PIdle /\ TIdle /\ MIdle /\ IIdle

SpecFormat == FormatInit /\ [][ClusterNext]_vars

\* The ticker translation on drawn tickers.
TickerInit == MInit /\ IIdle /\ CIdle /\ BIdle /\ PIdle /\ TIdle

TickerNext == RunTranslate \/ RunRoundTrip

SpecTicker == TickerInit /\ [][TickerNext]_vars

SpecCluster == ClusterInit /\ [][ClusterNext]_vars

----------------------------------------------------------------------------
\* Properties of the clustering engine (SpecCluster).

SeqRange(s) == {s[i] : i \in DOMAIN s}

Count(x, s) == Cardinality({i \in DOMAIN s : s[i] = x})

SetMax(S) == CHOOSE x \in S : \A y \in S : y <= x

SetMin(S) == CHOOSE x \in S : \A y \in S : x <= y

\* The levels an item holds: the levels array of a zone, the level a 'level'
\* item was spread from.
Members(item) ==
    IF item.type = "zone" THEN item.levels
    ELSE <<[f \in (DOMAIN item) \ {"type"} |-> item[f]]>>

RECURSIVE Flatten(_)
Flatten(items) ==
    IF items = <<>> THEN <<>> ELSE Members(Head(items)) \o Flatten(Tail(items))

\* The index of the item that holds position n of Flatten(items).
RECURSIVE Owner(_, _)
Owner(items, n) ==
    IF n <= Len(Members(Head(items))) THEN 1
    ELSE 1 + Owner(Tail(items), n - Len(Members(Head(items))))

MemberPrices(item) == {Members(item)[j].price : j \in DOMAIN Members(item)}

Zones == {i \in DOMAIN cItems : cItems[i].type = "zone"}

\* Whether pat occurs in text.
Contains(text, pat) ==
    \E i \in 1..(Len(text) - Len(pat) + 1) : SubSeq(text, i, i + Len(pat) - 1) = pat

\* C1: whatever the threshold, the members of the returned items, flattened,
\* are the input levels as a multiset: nothing dropped, nothing duplicated.
C1_Partition ==
    cPc # "input" =>
        LET flat == Flatten(cItems)
        IN  /\ Len(flat) = Len(cLevels)
            /\ \A l \in SeqRange(cLevels) \cup SeqRange(flat) :
                   Count(l, flat) = Count(l, cLevels)
            /\ \A p \in Prices :
                   Cardinality({i \in DOMAIN flat : flat[i].price = p})
                   = Cardinality({i \in DOMAIN cLevels : cLevels[i].price = p})

C1_Witness ==
    /\ cPc = "clustered"
    /\ Len(cLevels) = 3
    /\ \E i, j \in DOMAIN cItems : cItems[i].type = "zone" /\ cItems[j].type = "level"

\* C2: for a threshold > 0 the levels are walked in ascending price order; a
\* level joins the current cluster exactly when its distance to the cluster's
\* highest price is at most that price times the threshold percent, else it
\* starts the next item.  Prices 100, 101, 102.5 at 1% give the zone {100, 101}
\* followed by the level 102.5.
C2_Admission ==
    (cPc # "input" /\ cThreshold > 0) =>
        LET flat == Flatten(cItems)
            Near(high, price) == (price - high) * 1000 <= high * cThreshold
        IN  /\ \A n \in 1..(Len(flat) - 1) : flat[n].price <= flat[n + 1].price
            /\ \A k \in DOMAIN cItems :
                   LET m == Members(cItems[k])
                   IN  \A j \in 2..Len(m) :
                           Near(SetMax({m[h].price : h \in 1..(j - 1)}), m[j].price)
            /\ \A k \in 1..(Len(cItems) - 1) :
                   ~Near(SetMax(MemberPrices(cItems[k])), Members(cItems[k + 1])[1].price)
            /\ (/\ Len(cLevels) = 3
                /\ {cLevels[i].price : i \in DOMAIN cLevels} = {1000, 1010, 1025}
                /\ cThreshold = 10)
               => /\ Len(cItems) = 2
                  /\ cItems[1].type = "zone"
                  /\ PricesOf(cItems[1].levels) = <<1000, 1010>>
                  /\ cItems[2].type = "level"
                  /\ cItems[2].price = 1025

C2_Witness ==
    /\ cPc = "clustered"
    /\ cThreshold = 10
    /\ PricesOf(cLevels) = <<1025, 1000, 1010>>
    /\ Len(cItems) = 2

\* C3: for a threshold > 0 two levels adjacent in ascending price order share
\* an item exactly when the higher is within the threshold percent of the lower.
C3_SingleLinkage ==
    (cPc # "input" /\ cThreshold > 0) =>
        LET flat == Flatten(cItems)
        IN  \A n \in 1..(Len(flat) - 1) :
                /\ flat[n].price <= flat[n + 1].price
                /\ (Owner(cItems, n) = Owner(cItems, n + 1))
                   <=> ((flat[n + 1].price - flat[n].price) * 1000
                        <= flat[n].price * cThreshold)

\* A zone chained beyond the threshold percent of its low price.
C3_Witness ==
    /\ cPc = "clustered"
    /\ cThreshold > 0
    /\ \E i \in Zones :
           (cItems[i].highPrice - cItems[i].lowPrice) * 1000
           > cItems[i].lowPrice * cThreshold

\* C4: for a threshold <= 0 there is one 'level' item per input level, the
\* i-th wrapping the i-th input level: the input order is kept.
C4_ThresholdOff ==
    (cPc # "input" /\ cThreshold <= 0) =>
        /\ Len(cItems) = Len(cLevels)
        /\ \A i \in DOMAIN cItems :
               /\ cItems[i].type = "level"
               /\ Members(cItems[i]) = <<cLevels[i]>>

C4_Witness ==
    /\ cPc = "clustered"
    /\ cThreshold = 0
    /\ Len(cLevels) = 3
    /\ cLevels[1].price > cLevels[2].price
    /\ cLevels[2].price = cLevels[3].price

\* C5: an item is a 'level' wrapping one input level, or a 'zone' of at least
\* two levels whose levelCount is their number; one input level gives one
\* 'level' item.
C5_ItemShape ==
    cPc # "input" =>
        /\ \A i \in DOMAIN cItems :
               \/ /\ cItems[i].type = "level"
                  /\ Len(Members(cItems[i])) = 1
                  /\ Members(cItems[i])[1] \in SeqRange(cLevels)
               \/ /\ cItems[i].type = "zone"
                  /\ Len(cItems[i].levels) >= 2
                  /\ cItems[i].aggregated.levelCount = Len(cItems[i].levels)
        /\ Len(cLevels) = 1 => (Len(cItems) = 1 /\ cItems[1].type = "level")

C5_Witness ==
    /\ cPc = "clustered"
    /\ Len(cLevels) = 1
    /\ cThreshold = 50
    /\ Len(cItems) = 1

RECURSIVE SumMillions(_)
SumMillions(levels) ==
    IF levels = <<>> THEN 0 ELSE Head(levels).dollars.m + SumMillions(Tail(levels))

RECURSIVE SumUnits(_)
SumUnits(levels) ==
    IF levels = <<>> THEN 0 ELSE Head(levels).dollars.u + SumUnits(Tail(levels))

\* C6: a zone's highPrice and lowPrice are the extremes of its members' prices,
\* midPrice is their mean, totalDollars the sum of the members' dollars (an
\* absent one counting 0) and avgDollars that sum over the member count.
C6_ZoneAggregates ==
    cPc # "input" =>
        \A i \in Zones :
            LET z == cItems[i]
            IN  /\ z.highPrice = SetMax(MemberPrices(z))
                /\ z.lowPrice = SetMin(MemberPrices(z))
                /\ z.midPrice.den > 0
                /\ 2 * z.midPrice.num = (z.highPrice + z.lowPrice) * z.midPrice.den
                /\ z.aggregated.totalDollars.m
                   = SumMillions(z.levels) + (SumUnits(z.levels) \div 1000000)
                /\ z.aggregated.totalDollars.u = SumUnits(z.levels) % 1000000
                /\ z.aggregated.avgDollars.num = z.aggregated.totalDollars
                /\ z.aggregated.avgDollars.den = z.aggregated.levelCount

C6_Witness ==
    /\ cPc = "clustered"
    /\ \E i \in Zones :
           /\ Len(cItems[i].levels) = 3
           /\ cItems[i].levels[1].dollars = NoDollars
           /\ cItems[i].levels[2].dollars # NoDollars
           /\ cItems[i].highPrice > cItems[i].levels[2].price

RECURSIVE CommaJoin(_)
CommaJoin(ranks) ==
    IF ranks = <<>> THEN <<>>
    ELSE IF Len(ranks) = 1 THEN NumToString(ranks[1])
    ELSE NumToString(ranks[1]) \o <<",">> \o CommaJoin(Tail(ranks))

----------------------------------------------------------------------------
\* Properties of the fetch-and-draw coordination (Spec).

\* C8: a fetch that succeeds with zero rows returns a success with an empty
\* levels list, and a call with zero fetched levels returns that result
\* without clustering and without any message to the tab.
C8_NoDrawWhenEmpty ==
    \A p \in DOMAIN calls :
        LET c == calls[p]
        IN  /\ (c.kind = "levels" /\ c.parsed /\ c.body = <<>>) =>
                   /\ c.thrown = <<>>
                   /\ c.fetchResult # <<>>
                   /\ c.fetchResult[1].success
                   /\ c.fetchResult[1].levels = <<>>
            /\ (c.kind = "levels" /\ c.fetchResult # <<>> /\ c.fetched = <<>>) =>
                   /\ SentBy(p) = {}
                   /\ ~c.clustered
                   /\ c.pc = "replied"
                   /\ c.response = c.fetchResult

C8_Witness ==
    \E p \in DOMAIN calls :
        /\ calls[p].kind = "levels"
        /\ calls[p].tabId = ChartTab
        /\ calls[p].parsed
        /\ calls[p].body = <<>>
        /\ calls[p].pc = "replied"

\* C9: when the fetch gave at least one level and the message to the tab is
\* rejected, the call does not throw: its result has success = true, the
\* levels as they were fetched, drawResult.success = false and an error in
\* drawResult.error.
C9_DrawFailureKeepsLevels ==
    \A p \in DOMAIN calls :
        LET c == calls[p]
        IN  (c.kind = "levels" /\ c.fetched # <<>> /\ c.drew = "reject") =>
                /\ c.thrown = <<>>
                /\ c.response # <<>>
                /\ c.response[1].success
                /\ c.response[1].levels = c.fetched
                /\ c.response[1].drawResult.success = FALSE
                /\ c.response[1].drawResult.error = TabError.message

\* C10: a fetch that fails (no ticker, no auth cookie, session expired, another
\* status that is not ok, network error) aborts the call: nothing is
\* clustered, nothing is sent to the tab, and the sender is answered
\* { success: false, error: the error's message }.
C10_FetchFailureAborts ==
    \A p \in DOMAIN calls :
        LET c == calls[p]
            failure ==
                IF c.symbol = "" THEN <<NoTickerError>>
                ELSE IF c.auth = "no" THEN <<NotLoggedInError>>
                ELSE IF c.status = <<0>> THEN <<NetworkError>>
                ELSE IF c.status \in {<<401>>, <<403>>} THEN <<SessionExpiredError>>
                ELSE IF c.status # <<>> /\ c.status # <<200>> THEN <<ApiError(c.status[1])>>
                ELSE <<>>
        IN  /\ failure # <<>> => c.thrown = failure
            /\ c.thrown # <<>> =>
                   /\ c.pc = "replied"
                   /\ c.fetchResult = <<>>
                   /\ ~c.clustered
                   /\ SentBy(p) = {}
                   /\ c.response = <<[success |-> FALSE, error |-> c.thrown[1].message]>>

C10_Witness ==
    \E p, q \in DOMAIN calls :
        /\ calls[p].kind = "levels"
        /\ calls[p].tabId = ChartTab
        /\ calls[p].thrown = <<SessionExpiredError>>
        /\ calls[q].kind = "trades"
        /\ calls[q].tabId = ChartTab
        /\ calls[q].thrown = <<ApiError(400)>>

\* C11: within one fetchAndDraw the steps come in the order fetch, clustering,
\* drawing: the levels are clustered only once the upstream has answered 200
\* and the body was taken in, DRAW_LEVELS is sent only once the drawables are
\* clustered and every one of them labelled, and while the call's request is
\* still out it has clustered nothing and sent nothing.
C11_FetchClusterDraw ==
    \A p \in DOMAIN calls :
        LET c == calls[p]
        IN  c.kind = "levels" =>
                /\ c.pc \in {"auth", "http", "json"} =>
                       (SentBy(p) = {} /\ ~c.clustered /\ c.settings = <<>>)
                /\ c.clustered =>
                       (c.status = <<200>> /\ c.parsed /\ c.fetchResult # <<>>)
                /\ SentBy(p) # {} =>
                       /\ c.clustered
                       /\ Cardinality(SentBy(p)) = 1
                       /\ \A i \in SentBy(p) :
                              /\ tabInbox[i].type = "DRAW_LEVELS"
                              /\ tabInbox[i].items # <<>>
                              /\ \A k \in DOMAIN tabInbox[i].items :
                                     "label" \in DOMAIN tabInbox[i].items[k]
                /\ c.drew # "no" => SentBy(p) # {}

C11_Witness ==
    \E p \in DOMAIN calls :
        /\ calls[p].kind = "levels"
        /\ calls[p].drew = "resolve"
        /\ calls[p].pc = "replied"
        /\ \E i \in SentBy(p) : \E k \in DOMAIN tabInbox[i].items :
               tabInbox[i].items[k].type = "zone"

\* C12 as stated: after a draw message was rejected, what the call fetched
\* (levels or trades) is in storage.local under the call's ticker.
C12_DurableBoth ==
    \A p \in DOMAIN calls :
        LET c == calls[p]
        IN  (c.drew = "reject" /\ c.fetched # <<>>) =>
                /\ c.ticker \in DOMAIN stored
                /\ stored[c.ticker] = c.fetched

\* C12 as the code has it: the step in which fetchVlLevels takes a body with
\* levels in writes them to storage.local under the ticker before any message
\* goes to the tab; the step in which fetchVlTrades takes a body with trades
\* puts them in the largeTrades map in memory and writes nothing to
\* storage.local; and the settling of the draw message, however it settles,
\* changes neither of the maps nor the storage.
C12_SavedBeforeDraw ==
    [][\A p \in DOMAIN calls :
           /\ (calls[p].pc = "json" /\ calls'[p].parsed /\ calls'[p].fetched # <<>>
               /\ calls[p].kind = "levels") =>
                  /\ calls[p].ticker \in DOMAIN stored'
                  /\ stored'[calls[p].ticker] = calls'[p].fetched
                  /\ tabInbox' = tabInbox
           /\ (calls[p].pc = "json" /\ calls'[p].parsed /\ calls'[p].fetched # <<>>
               /\ calls[p].kind = "trades") =>
                  /\ calls[p].ticker \in DOMAIN largeTrades'
                  /\ largeTrades'[calls[p].ticker] = calls'[p].fetched
                  /\ stored' = stored
           /\ (calls[p].pc = "draw" /\ calls'[p].pc = "replied") =>
                  /\ tradeLevels' = tradeLevels
                  /\ largeTrades' = largeTrades
                  /\ stored' = stored]_vars

C12_Witness ==
    \E p, q \in DOMAIN calls :
        /\ calls[p].kind = "levels"
        /\ calls[p].drew = "reject"
        /\ calls[p].ticker \in DOMAIN stored
        /\ stored[calls[p].ticker] = calls[p].fetched
        /\ calls[q].kind = "trades"
        /\ calls[q].drew = "reject"
        /\ calls[q].ticker \in DOMAIN largeTrades
        /\ largeTrades[calls[q].ticker] = calls[q].fetched

\* C14: a call whose auth check found no auth cookie (or whose cookie lookup
\* failed) has thrown the not-logged-in error, has issued no request to the
\* upstream and is over, in every state from then on; every call that got a
\* status from the upstream had passed the auth check.
C14_AuthBeforeRequest ==
    \A p \in DOMAIN calls :
        LET c == calls[p]
        IN  /\ c.auth = "no" =>
                   /\ c.thrown = <<NotLoggedInError>>
                   /\ Requests(c) = <<>>
                   /\ c.status = <<>>
                   /\ ~c.parsed
                   /\ c.pc = "replied"
                   /\ c.response = <<[success |-> FALSE, error |-> NotLoggedInError.message]>>
            /\ (c.pc \in {"http", "json"} \/ c.status # <<>> \/ c.parsed) => c.auth = "yes"

C14_Witness ==
    \E p, q \in DOMAIN calls :
        /\ calls[p].kind = "levels"
        /\ calls[p].auth = "no"
        /\ calls[p].pc = "replied"
        /\ calls[q].kind = "trades"
        /\ calls[q].auth = "no"
        /\ calls[q].pc = "replied"

\* C15: a call the upstream answered 401 or 403 has thrown the session-expired
\* error; a call it answered with another status that is not ok has thrown the
\* generic error whose message quotes that status; either call is over, with
\* the body never read and the sender answered with the error.
C15_StatusClasses ==
    \A p \in DOMAIN calls :
        LET c == calls[p]
        IN  (c.status # <<>> /\ c.status[1] \notin {0, 200}) =>
                /\ c.status[1] \in {401, 403} => c.thrown = <<SessionExpiredError>>
                /\ c.status[1] \notin {401, 403} =>
                       /\ c.thrown # <<>>
                       /\ c.thrown[1].message.text = ApiError(0).message.text
                       /\ c.thrown[1].message.status = c.status[1]
                       /\ c.thrown # <<SessionExpiredError>>
                /\ c.pc = "replied"
                /\ ~c.parsed
                /\ Requests(c) = <<"POST">>
                /\ c.response = <<[success |-> FALSE, error |-> c.thrown[1].message]>>

C15_Witness ==
    \E p, q \in DOMAIN calls :
        /\ calls[p].status = <<403>>
        /\ calls[p].thrown = <<SessionExpiredError>>
        /\ calls[q].status = <<400>>
        /\ calls[q].thrown = <<ApiError(400)>>

\* C16: once the upstream has rejected a call with status 400, a call that
\* sends its request afterwards has fetched a fresh anti-forgery token first.
C16_TokenRefreshedAfter400 ==
    [][\A p, q \in DOMAIN calls :
           (/\ calls[p].status = <<400>>
            /\ calls[p].pc = "replied"
            /\ calls[q].pc = "auth"
            /\ calls'[q].pc = "http")
           => Requests(calls'[q]) = <<"token", "POST">>]_vars

\* C20: the items of a DRAW_LEVELS message are, with clustering enabled and a
\* threshold > 0, clusterLevels of the fetched levels each with its label,
\* and else one labelled 'level' item per fetched level in fetched order; a
\* call without a tab sends nothing and returns the fetch result as it is.
C20_ItemsSent ==
    \A p \in DOMAIN calls :
        LET c == calls[p]
        IN  c.kind = "levels" =>
                /\ \A i \in SentBy(p) :
                       c.pc = "draw" =>
                       tabInbox[i].items
                       = IF c.settings[1] /\ c.settings[2] > 0
                         THEN WithLabels(clusterLevels(c.fetched, c.settings[2]))
                         ELSE [k \in DOMAIN c.fetched |->
                                  [label |-> formatLevelLabel(c.fetched[k])]
                                  @@ LevelItem(c.fetched[k])]
                /\ (c.tabId = NoTab /\ c.fetchResult # <<>>) =>
                       /\ SentBy(p) = {}
                       /\ c.pc = "replied"
                       /\ c.response = c.fetchResult

\* C21: a trades call with a target tab has asked the tab for its visible time
\* range before it issues its request, and the request's window is that range
\* when the tab answered with one and the default year window otherwise.
C21_VisibleRangeAsked ==
    \A p \in DOMAIN calls :
        LET c == calls[p]
        IN  (c.kind = "trades" /\ c.tabId # NoTab /\ Requests(c) # <<>>) =>
                /\ \E i \in SentBy(p) : tabInbox[i].type = "GET_VISIBLE_RANGE"
                /\ RequestWindow(c) \in {<<"visibleRange">>, <<"yearRange">>}

----------------------------------------------------------------------------
\* Properties of the level cache (SpecCache).

\* No two levels of one symbol have the same price.
NoDuplicatePrice(map) ==
    \A t \in DOMAIN map : \A i, j \in DOMAIN map[t] :
        i # j => map[t][i].price # map[t][j].price

\* C13: whatever was intercepted, fetched, cleared, added or removed in the
\* popup and loaded again, no symbol of the cache (the tradeLevels map, the
\* popup's levels, storage.local) has two levels of one price; and of the rows
\* of one price a fetch took in, the level kept is the one of the first row.
C13_OnePerPrice ==
    /\ NoDuplicatePrice(tradeLevels)
    /\ NoDuplicatePrice(stored)
    /\ NoDuplicatePrice(popupLevels)
    /\ \A p \in DOMAIN calls :
           LET c == calls[p]
               RowsOf(price) == {n \in DOMAIN c.body :
                                    /\ c.body[n].Price = price
                                    /\ ToUpperCase(c.body[n].Ticker) = c.ticker}
           IN  c.parsed =>
                   /\ \A k \in DOMAIN c.fetched :
                          /\ RowsOf(c.fetched[k].price) # {}
                          /\ c.fetched[k].rank
                             = c.body[SetMin(RowsOf(c.fetched[k].price))].TradeLevelRank
                          /\ c.fetched[k].dollars
                             = c.body[SetMin(RowsOf(c.fetched[k].price))].Dollars
                   /\ \A n \in DOMAIN c.body :
                          (c.body[n].Price # 0 /\ ToUpperCase(c.body[n].Ticker) = c.ticker) =>
                              Cardinality({k \in DOMAIN c.fetched :
                                              c.fetched[k].price = c.body[n].Price}) = 1

C13_Witness ==
    /\ \E p \in DOMAIN calls :
           /\ calls[p].parsed
           /\ Len(calls[p].body) = 2
           /\ calls[p].body[1].Price = calls[p].body[2].Price
           /\ Len(calls[p].fetched) = 1
    /\ \E t \in DOMAIN tradeLevels : \E i, j \in DOMAIN tradeLevels[t] :
           /\ tradeLevels[t][i].source = "manual"
           /\ tradeLevels[t][j].source = "intercepted"
    /\ intercepted > 0

\* The entry of symbol t in a map: <<levels>>, or <<>> when t is not a key.
EntryOf(map, t) == IF t \in DOMAIN map THEN <<map[t]>> ELSE <<>>

\* C22: the step in which a fetch of symbol t takes in its response, the
\* rows all being of t, sets the entry of t in the cache and in storage to the
\* levels of that response when it has rows, and leaves the entry of every
\* other symbol as it was, in the cache and in storage; a response without
\* rows changes neither.
C22_LastWriteWins ==
    [][\A p \in DOMAIN calls :
           LET t == calls[p].ticker
               data == calls'[p].body
               fresh == extractLevels(EmptyMap, DirectFetchUrl(t), data)
           IN  (/\ calls[p].kind = "levels"
                /\ calls[p].pc = "json"
                /\ calls'[p].parsed
                /\ \A n \in DOMAIN data : data[n].Ticker = t)
               => IF data = <<>>
                  THEN tradeLevels' = tradeLevels /\ stored' = stored
                  ELSE /\ EntryOf(tradeLevels', t) = EntryOf(fresh, t)
                       /\ EntryOf(stored', t) = EntryOf(fresh, t)
                       /\ \A u \in Tickers \ {t} :
                              /\ EntryOf(tradeLevels', u) = EntryOf(tradeLevels, u)
                              /\ EntryOf(stored', u) = EntryOf(stored, u)]_vars

\* How many levels a map holds.
LevelCount(map) == Cardinality({<<t, i>> \in (DOMAIN map) \X (1..MaxLevels + 2) :
                                   i \in DOMAIN map[t]})

\* C24: the popup's Clear Cache (the step that empties a list of two or more
\* levels at once, and storage with it) leaves no level in the background's
\* cache either, so that nothing cached before is answered to GET_LEVELS /
\* GET_STATUS or saved again afterwards.
C24_ClearCacheClearsAll ==
    [][(/\ LevelCount(popupLevels) >= 2
        /\ popupLevels' = EmptyMap
        /\ stored' = EmptyMap)
       => tradeLevels' = EmptyMap]_vars

----------------------------------------------------------------------------
\* Properties of the content script (SpecContent).

DrawJobs == {j \in DOMAIN jobs : jobs[j].type \in {"DRAW_LEVELS", "DRAW_NOTES"}}

\* The failure entry of a draw job's item k with the given error.
FailureOf(job, k, error) ==
    IF job.type = "DRAW_LEVELS" THEN LevelFailure(job.items[k], error)
    ELSE NoteFailure(job.items[k], error)

\* C17: a command that got no reply in time fails with the timeout error, and
\* the caller does with it what it does with an error reply:
\* checkTradingViewReady gives false, getCurrentSymbol gives null, and
\* drawLevels, drawNotes and clearDrawnLevels push a failed entry that
\* differs from the one of an error reply in the error text only, and go on
\* with the next item; a job of which no command timed out is none the worse
\* for the timeouts of another.
C17_TimeoutAsError ==
    \A j \in DOMAIN jobs :
        LET job == jobs[j]
        IN  /\ (job.type = "CHECK_TV_READY" /\ job.hows \in {<<"timeout">>, <<"threw">>}) =>
                   job.reply = <<[ready |-> FALSE]>>
            /\ (job.type = "GET_CURRENT_SYMBOL"
                /\ job.hows \in {<<"timeout">>, <<"threw">>}) =>
                   job.reply = <<[symbol |-> Null]>>
            /\ job.type \in {"DRAW_LEVELS", "DRAW_NOTES", "CLEAR_DRAWN"} =>
                   /\ Len(job.results) = Len(job.hows)
                   /\ job.pc \in {"item", "remove"} => job.i = Len(job.hows) + 1
                   /\ job.pc = "done" => job.reply[1].success
            /\ j \in DrawJobs =>
                   \A k \in DOMAIN job.hows :
                       /\ job.hows[k] = "timeout" =>
                              job.results[k] = FailureOf(job, k, TimeoutMessage)
                       /\ job.hows[k] = "no-chart" =>
                              job.results[k] = FailureOf(job, k, NoChartMessage)
                       /\ job.hows[k] = "drawn" => Truthy(job.results[k], "success")
            /\ job.type = "CLEAR_DRAWN" =>
                   \A k \in DOMAIN job.hows :
                       /\ job.hows[k] = "timeout" =>
                              job.results[k] = [shapeId |-> job.ids[k], success |-> FALSE,
                                                error |-> TimeoutMessage]
                       /\ job.hows[k] = "no-chart" =>
                              job.results[k] = [shapeId |-> job.ids[k], success |-> FALSE,
                                                error |-> NoChartMessage]
                       /\ job.hows[k] = "removed" =>
                              job.results[k] = [shapeId |-> job.ids[k], success |-> TRUE]

C17_Witness ==
    \E j, q \in DOMAIN jobs :
        /\ jobs[j].type = "DRAW_LEVELS"
        /\ jobs[j].hows = <<"timeout", "drawn">>
        /\ jobs[j].pc = "done"
        /\ jobs[q].type = "CHECK_TV_READY"
        /\ jobs[q].hows = <<"timeout">>
        /\ jobs[q].pc = "done"

\* C18: a draw that has returned has tried every item in order, whatever
\* became of the items before: its reply has success = true and results has
\* one entry per item, the k-th for the k-th item (a success, a failure with
\* its error, or for a note a skip), so that drawn + failed, plus skipped for
\* notes, is the number of items.
C18_BatchGoesOn ==
    \A j \in DrawJobs :
        LET job == jobs[j]
        IN  /\ Len(job.results) = Len(job.hows)
            /\ \A k \in DOMAIN job.results :
                   /\ (IF "midPrice" \in DOMAIN job.results[k]
                       THEN job.results[k].midPrice ELSE job.results[k].price)
                      = (IF job.type = "DRAW_LEVELS" /\ job.items[k].type = "zone"
                         THEN job.items[k].midPrice ELSE job.items[k].price)
                   /\ Truthy(job.results[k], "success") <=> job.hows[k] = "drawn"
                   /\ Truthy(job.results[k], "skipped") <=> job.hows[k] = "skipped"
                   /\ job.hows[k] \notin {"drawn", "skipped"} =>
                          /\ job.results[k].success = FALSE
                          /\ job.results[k].error
                             \in {TimeoutMessage, NoChartMessage, NullMessage}
            /\ job.pc = "done" =>
                   /\ Len(job.hows) = Len(job.items)
                   /\ job.reply[1].success
                   /\ job.reply[1].results = job.results
                   /\ job.reply[1].drawn + job.reply[1].failed
                      + (IF job.type = "DRAW_NOTES" THEN job.reply[1].skipped ELSE 0)
                      = Len(job.items)

C18_Witness ==
    \E j, q \in DrawJobs :
        /\ jobs[j].type = "DRAW_LEVELS"
        /\ jobs[j].pc = "done"
        /\ jobs[j].hows = <<"no-chart", "drawn">>
        /\ jobs[q].type = "DRAW_NOTES"
        /\ jobs[q].pc = "done"
        /\ jobs[q].hows = <<"skipped", "threw-blank">>

ThrowingHows == {"no-chart", "threw", "threw-blank"}

\* C23: the reply the injected script posts for a command it received has an
\* error exactly when the command's handler threw, and then no result; the
\* sendToInjected call of every command is settled, rejected exactly when
\* the handler threw or no reply came.
C23_ExceptionBecomesError ==
    \A j \in DOMAIN jobs : \A k \in DOMAIN jobs[j].hows :
        LET how == jobs[j].hows[k]
            reply == InjectedReply(how, [shapeId |-> 1])
            settled == sendToInjected(reply)
        IN  /\ settled.rejected \in BOOLEAN
            /\ settled.rejected = (how \in ThrowingHows \cup {"timeout"})
            /\ how # "timeout" =>
                   /\ (reply.error # "") = (how \in ThrowingHows)
                   /\ reply.error # "" => reply.result = Null

\* C25: a step of clearDrawnLevels (CLEAR_DRAWN received, or one of its
\* REMOVE_SHAPE commands settled) adds no shape to the chart, leaves the
\* tracked identifiers as they are or empties them, and changes neither the
\* background's tradeLevels map nor the tradeLevels key of storage.local.
C25_ClearDrawnKeepsCache ==
    [][\A j \in DOMAIN jobs' :
           (/\ jobs'[j].type = "CLEAR_DRAWN"
            /\ \/ j \notin DOMAIN jobs
               \/ jobs'[j].i # jobs[j].i
               \/ jobs'[j].pc # jobs[j].pc)
           => /\ tradeLevels' = tradeLevels
              /\ stored' = stored
              /\ chart' \subseteq chart
              /\ drawnShapeIds' \in {drawnShapeIds, <<>>}
              /\ storedShapeIds' \in {storedShapeIds, <<>>}]_vars

C25_Witness ==
    /\ \E j \in DOMAIN jobs :
           /\ jobs[j].type = "CLEAR_DRAWN"
           /\ jobs[j].pc = "done"
           /\ \E k \in DOMAIN jobs[j].results : jobs[j].results[k].success
    /\ chart = {}
    /\ drawnShapeIds = <<>>
    /\ storedShapeIds = <<>>
    /\ "AAPL" \in DOMAIN tradeLevels
    /\ stored = tradeLevels

----------------------------------------------------------------------------
\* Properties of the label formatters (SpecFormat).

\* What formatDollars is to give for the amounts drawn, written out.
DollarText(amount) ==
    CASE amount = Amt(0, 1) -> <<"$", "1">>
      [] amount = Amt(0, 999) -> <<"$", "9", "9", "9">>
      [] amount = Amt(0, 1000) -> <<"$", "1", "K">>
      [] amount = Amt(0, 1499) -> <<"$", "1", "K">>
      [] amount = Amt(0, 1500) -> <<"$", "2", "K">>
      [] amount = Amt(0, 999499) -> <<"$", "9", "9", "9", "K">>
      [] amount = Amt(0, 999500) -> <<"$", "1", "0", "0", "0", "K">>
      [] amount = Amt(0, 999999) -> <<"$", "1", "0", "0", "0", "K">>
      [] amount = Amt(1, 0) -> <<"$", "1", "M">>
      [] amount = Amt(1, 499999) -> <<"$", "1", "M">>
      [] amount = Amt(1, 500000) -> <<"$", "2", "M">>
      [] amount = Amt(250, 0) -> <<"$", "2", "5", "0", "M">>
      [] amount = Amt(999, 499999) -> <<"$", "9", "9", "9", "M">>
      [] amount = Amt(999, 999999) -> <<"$", "1", "0", "0", "0", "M">>
      [] amount = Amt(1000, 0) -> <<"$", "1", ".", "0", "B">>
      [] amount = Amt(1250, 0) -> <<"$", "1", ".", "3", "B">>
      [] amount = Amt(1600, 0) -> <<"$", "1", ".", "6", "B">>
      [] amount = Amt(1649, 999999) -> <<"$", "1", ".", "6", "B">>
      [] amount = Amt(2960, 0) -> <<"$", "3", ".", "0", "B">>
      [] amount = Amt(12340, 0) -> <<"$", "1", "2", ".", "3", "B">>

\* The last token of a label: what follows its last space.
RECURSIVE LastToken(_)
LastToken(text) ==
    IF text = <<>> \/ text[Len(text)] = " " THEN <<>>
    ELSE LastToken(SubSeq(text, 1, Len(text) - 1)) \o <<text[Len(text)]>>

\* C26: the dollar token of a labelled level is '$' and the amount in its
\* bucket, the buckets having inclusive lower bounds: billions with one
\* decimal and 'B' from 1e9, whole millions and 'M' from 1e6, whole thousands
\* and 'K' from 1e3, whole dollars below (1e9 gives '$1.0B', 250e6 '$250M',
\* 999 '$999'); and the popup's copy gives the same string.
C26_DollarBuckets ==
    cPc = "labelled" =>
        \A k \in DOMAIN cItems :
            (cItems[k].type = "level" /\ cItems[k].dollars \in FormatAmounts) =>
                LET amount == cItems[k].dollars
                    token == LastToken(cLabels[k])
                IN  /\ token = DollarText(amount)
                    /\ token[Len(token)] = "B" <=> amount.m >= 1000
                    /\ token[Len(token)] = "M" <=> (amount.m >= 1 /\ amount.m < 1000)
                    /\ token[Len(token)] = "K" <=> (amount.m = 0 /\ amount.u >= 1000)
                    /\ PopupFormatDollars(amount) = token

C26_Witness ==
    /\ cPc = "labelled"
    /\ Len(cItems) = 1
    /\ cItems[1].dollars = Amt(1000, 0)
    /\ cItems[1].rank = Absent
    /\ cLabels[1] = <<"V", "L", " ", "$", "1", ".", "0", "B">>

\* The tokens of a label: the pieces between its spaces, empty ones included.
RECURSIVE Tokens(_)
Tokens(text) ==
    IF text = <<>> THEN <<<<>>>>
    ELSE LET before == Tokens(SubSeq(text, 1, Len(text) - 1))
             n == Len(before)
         IN  IF text[Len(text)] = " " THEN Append(before, <<>>)
             ELSE [before EXCEPT ![n] = Append(@, text[Len(text)])]

\* C27: the label of a level or zone is its tokens joined by single spaces:
\* 'VL' first, then the rank token ('#' and the rank; for a zone the rank or
\* rank range of its members) exactly when a rank is present, then the dollar
\* token formatDollars(dollars) exactly when dollars is present (for a zone,
\* when totalDollars > 0); no token is empty and the label never is.
C27_LabelTokens ==
    cPc = "labelled" =>
        \A k \in DOMAIN cItems :
            LET item == cItems[k]
                zone == item.type = "zone"
                hasRank == IF zone THEN \E i \in DOMAIN item.levels :
                                            item.levels[i].rank # Absent
                           ELSE item.rank # Absent
                amount == IF zone THEN item.aggregated.totalDollars ELSE item.dollars
                hasDollars == AmtTruthy(amount)
                tokens == Tokens(cLabels[k])
                n == Len(tokens)
            IN  /\ cLabels[k] # <<>>
                /\ tokens[1] = <<"V", "L">>
                /\ \A i \in 1..n : tokens[i] # <<>>
                /\ n = 1 + (IF hasRank THEN 1 ELSE 0) + (IF hasDollars THEN 1 ELSE 0)
                /\ hasRank =>
                       /\ tokens[2][1] = "#"
                       /\ ~zone => tokens[2] = <<"#">> \o NumToString(item.rank)
                /\ hasDollars => tokens[n] = formatDollars(amount)
                /\ \A i \in 2..n : tokens[i][1] = "#" => (hasRank /\ i = 2)
                /\ \A i \in 2..n : tokens[i][1] = "$" => (hasDollars /\ i = n)

C27_Witness ==
    /\ cPc = "labelled"
    /\ Len(cItems) = 1
    /\ cItems[1].type = "zone"
    /\ cItems[1].aggregated.rankRange = <<Absent, Absent>>
    /\ cLabels[1] = <<"V", "L", " ", "$", "5", "0", "1">>

\* C28: with the show-dates option set, the label of a level that has a date
\* range ends in the range's start date as a token of its own.  (The
\* formatters take the item and nothing else, so the labels of the model are
\* those of every setting of the option.)
C28_StartDateToken ==
    cPc = "labelled" =>
        \A k \in DOMAIN cItems :
            (cItems[k].type = "level" /\ cItems[k].dates # <<>>) =>
                LastToken(cLabels[k]) = cItems[k].dates[1]

----------------------------------------------------------------------------
\* Properties of the ticker translation (SpecTicker).

Translated == symPc \in {"translated", "returned"}

\* The ticker upper-cased and trimmed, and of that what follows the last colon.
AfterPrefix(text) ==
    LET upper == StrTrim(StrToUpperCase(text))
        colons == {i \in DOMAIN upper : upper[i] = ":"}
        start == IF colons = {} THEN 1 ELSE SetMax(colons) + 1
    IN  SubSeq(upper, start, Len(upper))

\* No rule of tvToVl applies to the ticker: between the spaces around it, it
\* has no colon, ends with no country suffix and is not BASE.X.
NoRuleApplies(text) ==
    LET upper == StrTrim(StrToUpperCase(text))
    IN  /\ ~HasColon(upper)
        /\ \A i \in DOMAIN COUNTRY_SUFFIXES : ~EndsWith(upper, COUNTRY_SUFFIXES[i])
        /\ ~DotMatch(upper)

AllLetters(text) == \A i \in DOMAIN text : IsUpperLetter(StrToUpperCase(text)[i])

\* C30: for every key k of VL_TO_TV_MAP, vlToTv(k) is the table's entry and
\* tvToVl(vlToTv(k)) = k (vlToTv('BRKB') = 'BRK.B', tvToVl('BRK.B') = 'BRKB');
\* vlToTv of a ticker of letters that is not a key is the ticker upper-cased,
\* with no dot put in.
C30_RoundTripByTable ==
    symPc = "returned" =>
        /\ symIn \in DOMAIN VL_TO_TV_MAP =>
               /\ symTv = VL_TO_TV_MAP[symIn]
               /\ symBack = symIn
        /\ symIn = <<"B", "R", "K", "B">> => symTv = <<"B", "R", "K", ".", "B">>
        /\ symIn = <<"B", "R", "K", ".", "B">> => symVl = <<"B", "R", "K", "B">>
        /\ (/\ symIn # <<>>
            /\ AllLetters(symIn)
            /\ StrToUpperCase(symIn) \notin DOMAIN VL_TO_TV_MAP)
           => /\ symTv = StrToUpperCase(symIn)
              /\ \A i \in DOMAIN symTv : symTv[i] # "."

C30_Witness ==
    /\ symPc = "returned"
    /\ symIn = <<"B", "R", "K", "B">>
    /\ symTv = <<"B", "R", "K", ".", "B">>
    /\ symBack = <<"B", "R", "K", "B">>

----------------------------------------------------------------------------
\* Drawing cycles on the chart.

\* The identifiers of the horizontal lines on the chart whose text starts
\* with 'VL'.
VlLineIds == {sh.id : sh \in {x \in chart : x.name = "horizontal_line" /\ StartsWithVL(x.text)}}

\* The identifiers of the shapes a draw recorded as drawn.
DrawnBy(job) ==
    {job.results[k].shapeId :
        k \in {n \in DOMAIN job.results : Truthy(job.results[n], "success")}}

\* C31: when draw calls do not overlap, after a drawLevels call has completed
\* the VL-labelled horizontal lines on the chart are exactly the ones that
\* call drew successfully, whether its CLEAR_VL_LINES succeeded, failed or
\* timed out: lines of earlier cycles do not accumulate.
C31_NoAccumulation ==
    \A j \in DOMAIN jobs :
        (/\ j = Len(jobs)
         /\ jobs[j].type = "DRAW_LEVELS"
         /\ jobs[j].solo
         /\ jobs[j].pc = "done")
        => VlLineIds = DrawnBy(jobs[j])

----------------------------------------------------------------------------
\* The level cache under a direct fetch.

\* C33: a step of a fetchVlLevels call changes the cached levels only when it
\* is the success response with at least one row coming back: the call that
\* throws at once for a missing ticker, the failed auth check, the error
\* status, the rejected fetch, the JSON that does not parse and the body
\* without rows all leave tradeLevels and the stored tradeLevels as they were.
C33_FailedFetchLeavesCache ==
    [][/\ Len(calls') > Len(calls) => tradeLevels' = tradeLevels /\ stored' = stored
       /\ \A p \in DOMAIN calls :
              (/\ calls[p].kind = "levels"
               /\ calls[p].pc \in {"auth", "http", "json"}
               /\ calls'[p].pc # calls[p].pc
               /\ ~(calls'[p].parsed /\ Len(calls'[p].body) > 0))
              => tradeLevels' = tradeLevels /\ stored' = stored]_vars

\* Levels of AAPL are cached and stored, one fetchVlLevels for AAPL has got a
\* body without rows and another an error status.
C33_Witness ==
    /\ "AAPL" \in DOMAIN tradeLevels
    /\ "AAPL" \in DOMAIN stored
    /\ \E p \in DOMAIN calls :
           calls[p].kind = "levels" /\ calls[p].parsed /\ calls[p].body = <<>>
    /\ \E p \in DOMAIN calls :
           calls[p].kind = "levels" /\ calls[p].status = <<403>> /\ calls[p].thrown # <<>>

\* The rows with a price, the first of every price, in the order of the body.
RECURSIVE FirstPerPrice(_, _)
FirstPerPrice(rows, seen) ==
    IF rows = <<>> THEN <<>>
    ELSE IF Head(rows).Price = 0 \/ Head(rows).Price \in seen
    THEN FirstPerPrice(Tail(rows), seen)
    ELSE <<Head(rows)>> \o FirstPerPrice(Tail(rows), seen \cup {Head(rows).Price})

\* C34: when the success response of a fetchVlLevels call arrives with at
\* least one row and every row carries the call's ticker, then in that one
\* step the ticker's cache entry becomes exactly the rows with a numeric
\* price, the first of every price, in the order of the response (no level
\* cached before remains), and the levels the call returns are that entry.
C34_FetchReplacesEntry ==
    [][\A p \in DOMAIN calls :
           (/\ calls[p].kind = "levels"
            /\ calls[p].pc = "json"
            /\ calls'[p].parsed
            /\ Len(calls'[p].body) > 0
            /\ \A k \in DOMAIN calls'[p].body : calls'[p].body[k].Ticker = calls[p].ticker)
           => LET rows == FirstPerPrice(calls'[p].body, {})
                  entry == MapGetOrEmpty(tradeLevels', calls[p].ticker)
              IN  /\ Len(entry) = Len(rows)
                  /\ \A k \in DOMAIN entry :
                         /\ entry[k].price = rows[k].Price
                         /\ entry[k].rank = rows[k].TradeLevelRank
                         /\ entry[k].dollars = rows[k].Dollars
                         /\ entry[k].symbol = calls[p].ticker
                  /\ calls'[p].fetched = entry
                  /\ calls'[p].fetchResult[1].levels = entry]_vars

\* Two fetches of AAPL have succeeded, one with rows at 101 and 100 and one
\* with two rows at 100, and the cache holds the one level at 100 of rank 1:
\* the level at 101 of the earlier response is gone and the second row at
\* 100 was not taken.
C34_Witness ==
    /\ \E p, q \in DOMAIN calls :
           /\ calls[p].parsed /\ calls[q].parsed
           /\ Len(calls[p].body) = 2 /\ calls[p].body[1].Price = 1010
           /\ Len(calls[q].body) = 2 /\ calls[q].body[2].TradeLevelRank = 3
    /\ "AAPL" \in DOMAIN tradeLevels
    /\ Len(tradeLevels["AAPL"]) = 1
    /\ tradeLevels["AAPL"][1].price = 1000
    /\ tradeLevels["AAPL"][1].rank = 1

----------------------------------------------------------------------------
\* The injected script without the chart API.

\* C35: a command handled while the chart API is not available leaves the
\* chart as it is; DRAW_LINE, DRAW_ZONE, DRAW_NOTE and REMOVE_SHAPE are
\* answered with the error 'TradingView chart API not available' and no
\* result, CLEAR_VL_SHAPES / CLEAR_VL_LINES / CLEAR_VL_NOTES with
\* { removed: 0 }, GET_ALL_SHAPES with an empty shape list and
\* GET_VISIBLE_RANGE with null, these without an error.
C35_NoChartReplies ==
    [][Len(handled') > Len(handled) =>
          LET reply == handled'[Len(handled')]
          IN  (~reply.hasChart /\ reply.command # "PING") =>
                  /\ chart' = chart
                  /\ created' = created
                  /\ reply.command \in DrawCommands \cup {"REMOVE_SHAPE"} =>
                         reply.error = "TradingView chart API not available"
                         /\ reply.result = Null
                  /\ reply.command \in ClearCommands =>
                         reply.error = "" /\ reply.result = [removed |-> 0]
                  /\ reply.command = "GET_ALL_SHAPES" =>
                         reply.error = "" /\ reply.result = [shapes |-> {}]
                  /\ reply.command = "GET_VISIBLE_RANGE" =>
                         reply.error = "" /\ reply.result = Null]_vars

\* Without the chart API a DRAW_LINE was refused and a CLEAR_VL_LINES answered
\* with nothing removed, the VL line of the earlier page load still there.
C35_Witness ==
    /\ \E k \in DOMAIN handled :
           ~handled[k].hasChart /\ handled[k].command = "DRAW_LINE"
           /\ handled[k].error = NoChartMessage
    /\ \E k \in DOMAIN handled :
           ~handled[k].hasChart /\ handled[k].command = "CLEAR_VL_LINES"
           /\ handled[k].error = ""
    /\ chart = UserShapes

----------------------------------------------------------------------------
\* Tracking of the drawn shapes.

\* The identifiers for which a clearDrawnLevels has posted REMOVE_SHAPE.
RemoveIssued ==
    UNION {{jobs[j].ids[k] : k \in 1..jobs[j].i} :
              j \in {q \in DOMAIN jobs : jobs[q].type = "CLEAR_DRAWN"}}

\* The identifiers the draws have got back from DRAW_LINE / DRAW_ZONE / DRAW_NOTE.
EverDrawn == UNION {DrawnBy(jobs[j]) : j \in DOMAIN jobs}

\* C36: every shape identifier a successful DRAW_LINE, DRAW_ZONE or DRAW_NOTE
\* returned is in drawnShapeIds until a CLEAR_DRAWN has issued REMOVE_SHAPE
\* for it, whatever the interleaving with the start-up loadDrawnShapeIds and
\* with a running CLEAR_DRAWN.
C36_IdsStayTracked ==
    \A id \in EverDrawn :
        (\E k \in DOMAIN drawnShapeIds : drawnShapeIds[k] = id) \/ id \in RemoveIssued

----------------------------------------------------------------------------
\* Replies and requests of sendToInjected.

\* C38: a dispatched message of the injected script changes exactly the
\* requests whose messageId it carries and whose listener is still
\* registered, and settles them with what it carries (a reply to a request
\* already timed out, and one whose messageId is no pending request's,
\* change nothing); a settled request keeps its outcome whatever reply or
\* timer comes later; and a request that has settled, by reply or by
\* timeout, has no listener registered any more.
C38_MatchedByMessageId ==
    [][/\ \A r \in DOMAIN requests :
              /\ requests[r].outcome # <<>> => requests'[r].outcome = requests[r].outcome
              /\ requests'[r].outcome # <<>> => ~requests'[r].listener
       /\ \A message \in mail \ mail' :
              message.source = "vl-tv-injected" =>
                  \A r \in DOMAIN requests :
                      IF message.messageId = requests[r].messageId /\ requests[r].listener
                      THEN requests'[r].outcome =
                               <<sendToInjected([result |-> message.result,
                                                 error |-> message.error])>>
                      ELSE requests'[r] = requests[r]]_vars

\* One request timed out and its command and reply were dispatched all the
\* same; the other was resolved by its reply and its timer fired afterwards.
C38_Witness ==
    \E r, q \in DOMAIN requests :
        /\ requests[r].outcome = <<sendToInjected(NoReply)>>
        /\ requests[r].calls = 1
        /\ \A message \in mail : message.messageId # requests[r].messageId
        /\ requests[q].outcome # <<>>
        /\ ~requests[q].outcome[1].rejected
        /\ requests[q].calls = 2

----------------------------------------------------------------------------
\* Overlapping draws.

\* C39: nothing makes a draw wait for another: while fewer than MaxMessages
\* messages have arrived, a DRAW_LEVELS that arrives is started at once,
\* whatever calls are running.  (C39_Witness is the state the overlap leads
\* to.)
C39_NoMutualExclusion ==
    Len(jobs) < MaxMessages => ENABLED ReceiveDraw("DRAW_LEVELS", <<LineItem>>)

\* Two DRAW_LEVELS overlapped, the CLEAR_VL_LINES of both succeeded, both have
\* returned, and the chart holds a VL line drawn by the one and a VL line
\* drawn by the other.
C39_Witness ==
    /\ Len(jobs) = 2
    /\ \A j \in DOMAIN jobs :
           /\ jobs[j].type = "DRAW_LEVELS"
           /\ jobs[j].pc = "done"
           /\ jobs[j].clearOk
           /\ DrawnBy(jobs[j]) \cap VlLineIds # {}
    /\ ~jobs[2].solo

----------------------------------------------------------------------------
\* The order of the clustered items.

\* The lowest and the highest price an item covers.
ItemLow(item) == IF item.type = "zone" THEN item.lowPrice ELSE item.price

ItemHigh(item) == IF item.type = "zone" THEN item.highPrice ELSE item.price

\* C40: for a threshold above 0, clusterLevels returns its items in ascending
\* price order with ranges that do not overlap (every item lies wholly below
\* the next), the members of every zone ascending by price, and leaves the
\* array it was given in its original order.
C40_AscendingItems ==
    [][(cPc = "input" /\ cPc' = "clustered" /\ cThreshold > 0) =>
          /\ cLevels' = cLevels
          /\ \A k \in 1..(Len(cItems') - 1) :
                 /\ ItemLow(cItems'[k]) <= ItemHigh(cItems'[k])
                 /\ ItemHigh(cItems'[k]) < ItemLow(cItems'[k + 1])
          /\ \A k \in DOMAIN cItems' :
                 cItems'[k].type = "zone" =>
                     \A m \in 1..(Len(cItems'[k].levels) - 1) :
                         cItems'[k].levels[m].price <= cItems'[k].levels[m + 1].price]_vars

\* Levels given at 110, 101 and 100 with a threshold of 1 percent: the zone
\* of 100 and 101 comes first, its members ascending, then the level at 110,
\* and the argument still reads 110, 101, 100.
C40_Witness ==
    /\ cPc = "clustered"
    /\ cThreshold = 1 * ThrScale
    /\ PricesOf(cLevels) = <<110 * PriceScale, 101 * PriceScale, 100 * PriceScale>>
    /\ Len(cItems) = 2
    /\ cItems[1].type = "zone"
    /\ PricesOf(cItems[1].levels) = <<100 * PriceScale, 101 * PriceScale>>
    /\ cItems[2].type = "level"
====
